---- MODULE Spec2Model ----
(***************************************************************************)
(* A model of the rich-text composer core: the snapshot history of         *)
(* ComposerModel (composer_model.rs) over the position-caching Dom         *)
(* (dom.rs, dom_traverser.rs), the range resolver (dom/find_range.rs) and  *)
(* the invariant-preserving Dom methods (dom/dom_methods.rs).              *)
(*                                                                         *)
(* A node is a record [kind, name, data, children].  A text node has kind  *)
(* "Text" and carries its code units in data; every other kind is a        *)
(* container carrying children.  A handle is the sequence of 0-based child *)
(* indices leading from the root to the node, as DomHandle::raw().         *)
(***************************************************************************)
EXTENDS Integers, Sequences, FiniteSets, TLC

VARIABLES
    states,           \* ComposerModel.states: Vec<ComposerState>
    cur_state_index,  \* ComposerModel.cur_state_index
    panicked,         \* TRUE once a call has panicked (the process is gone)
    last_op,          \* the public call that produced this state
    selects,          \* the number of select() calls made so far
    after_edit,       \* history variable: the state current right after each edit
    expect,           \* history variable: index into after_edit, or -1
    dom,              \* the document of a Dom the methods of dom_methods.rs act on
    ret               \* what the last call on dom returned

vars == <<states, cur_state_index, panicked, last_op, selects, after_edit,
          expect, dom, ret>>

-----------------------------------------------------------------------------
(* Bounds of the model.                                                    *)

MaxStates == 3      \* edits are offered while Len(states) < MaxStates
MaxSelects == 1     \* select() is offered this many times
MaxLoc == 2         \* select() and the *_in calls take offsets in 0..MaxLoc
MaxDocLen == 2      \* text is inserted while the document stays this short
MaxNodes == 3       \* a document of the Dom machine starts with at most this many nodes

-----------------------------------------------------------------------------
(* Slices and small helpers.                                               *)

Last(s) == s[Len(s)]

\* s[..n] of a Rust slice (the caller has checked n <= len)
Take(s, n) == SubSeq(s, 1, n)

\* s[n..] of a Rust slice (the caller has checked n <= len)
Drop(s, n) == SubSeq(s, n + 1, Len(s))

Min(a, b) == IF a < b THEN a ELSE b

Max(a, b) == IF a > b THEN a ELSE b

\* usize::clamp(lo, hi)
Clamp(v, lo, hi) == IF v < lo THEN lo ELSE IF v > hi THEN hi ELSE v

RECURSIVE SumSeq(_)
SumSeq(s) == IF s = <<>> THEN 0 ELSE Head(s) + SumSeq(Tail(s))

-----------------------------------------------------------------------------
(* Nodes (dom.rs).                                                         *)

StrongName == <<"s", "t", "r", "o", "n", "g">>

TextNode(data) ==
    [kind |-> "Text", name |-> <<>>, data |-> data, children |-> <<>>]

FormattingNode(name, children) ==
    [kind |-> "Formatting", name |-> name, data |-> <<>>, children |-> children]

ContainerNode(name, children) ==
    [kind |-> "Container", name |-> name, data |-> <<>>, children |-> children]

IsText(node) == node.kind = "Text"

\* DomNode::len: code units of text below the node
RECURSIVE NodeLen(_)
NodeLen(node) ==
    IF IsText(node) THEN Len(node.data)
    ELSE SumSeq([i \in 1..Len(node.children) |-> NodeLen(node.children[i])])

\* ToHtml::to_html().len(): a named element writes <name> and </name>
RECURSIVE HtmlLen(_)
HtmlLen(node) ==
    IF IsText(node) THEN Len(node.data)
    ELSE (IF node.name = <<>> THEN 0 ELSE 2 * Len(node.name) + 5)
         + SumSeq([i \in 1..Len(node.children) |-> HtmlLen(node.children[i])])

\* the text of the document in document order
RECURSIVE Flatten(_), FlattenSeq(_)
FlattenSeq(nodes) ==
    IF nodes = <<>> THEN <<>>
    ELSE Flatten(Head(nodes)) \o FlattenSeq(Tail(nodes))
Flatten(node) ==
    IF IsText(node) THEN node.data ELSE FlattenSeq(node.children)

-----------------------------------------------------------------------------
(* Handles (dom.rs, DomHandle).                                            *)

RootHandle == <<>>

has_parent(h) == h /= <<>>

parent_handle(h) == SubSeq(h, 1, Len(h) - 1)

child_handle(h, i) == Append(h, i)

index_in_parent(h) == h[Len(h)]

prev_sibling_handle(h) == Append(parent_handle(h), index_in_parent(h) - 1)

next_sibling_handle(h) == Append(parent_handle(h), index_in_parent(h) + 1)

\* Dom::lookup_node
RECURSIVE lookup_node(_, _)
lookup_node(node, h) ==
    IF h = <<>> THEN node
    ELSE lookup_node(node.children[Head(h) + 1], Tail(h))

\* lookup_node(h) finds a node: no index of h is beyond the children, and
\* none is asked of a text node
RECURSIVE IsHandleIn(_, _)
IsHandleIn(node, h) ==
    \/ h = <<>>
    \/ /\ ~IsText(node)
       /\ Head(h) < Len(node.children)
       /\ IsHandleIn(node.children[Head(h) + 1], Tail(h))

\* the tree with the node at h replaced (what a write through lookup_node_mut does)
RECURSIVE SetNode(_, _, _)
SetNode(node, h, new) ==
    IF h = <<>> THEN new
    ELSE [node EXCEPT !.children[Head(h) + 1] = SetNode(@, Tail(h), new)]

\* every handle of the tree below h, h included, in document order
RECURSIVE HandlesBelow(_, _), HandlesOfChildren(_, _, _)
HandlesOfChildren(node, h, i) ==
    IF i >= Len(node.children) THEN <<>>
    ELSE HandlesBelow(node.children[i + 1], child_handle(h, i))
         \o HandlesOfChildren(node, h, i + 1)
HandlesBelow(node, h) ==
    IF IsText(node) THEN <<h>> ELSE <<h>> \o HandlesOfChildren(node, h, 0)

-----------------------------------------------------------------------------
(* The position-caching Dom (dom.rs).  A Dom is a record                   *)
(* [document, handles_for_start, handles_for_end, positions_for_handles].  *)

EmptyMap == [k \in {} |-> 0]

\* HashMap::insert / BTreeMap::insert
Put(f, k, v) == [x \in DOMAIN f \cup {k} |-> IF x = k THEN v ELSE f[x]]

\* the set stored under k gains handle h (a new set when k has none)
AddHandle(f, k, h) ==
    Put(f, k, IF k \in DOMAIN f THEN f[k] \cup {h} ELSE {h})

NodePosition(start, end) == [start |-> start, end |-> end]

\* Dom::children
children(d) == d.document.children

\* Dom::position_for_handle
position_for_handle(d, h) == d.positions_for_handles[h]

HasPosition(d, h) == h \in DOMAIN d.positions_for_handles

\* the number of (key, handle) pairs of handles_for_start with key >= from:
\* the loop of update_positions visits a handle once for each of them
TimesAfter(d, from, h) ==
    Cardinality({k \in DOMAIN d.handles_for_start :
                    k >= from /\ h \in d.handles_for_start[k]})

\* the "update next nodes" loop of update_positions.  A positive diff_size is
\* added; any other is cast to usize and subtracted: 0 changes nothing and a
\* negative one wraps around, which adds its magnitude (where the build does
\* not trap the overflow, see ShiftOverflows).
ShiftNextNodes(d, end, diff_size) ==
    LET by(h) ==
            TimesAfter(d, end, h)
            * (IF diff_size > 0 THEN diff_size ELSE 0 - diff_size)
    IN  [d EXCEPT !.positions_for_handles =
            [h \in DOMAIN @ |->
                NodePosition(@[h].start + by(h), @[h].end + by(h))]]

\* the subtraction of the loop overflows for some cached handle
ShiftOverflows(d, end, diff_size) ==
    /\ diff_size < 0
    /\ \E h \in DOMAIN d.positions_for_handles : TimesAfter(d, end, h) > 0

\* DomNode::handle: the handle the node stores.  Where the tree is kept
\* without the handle fields, the handle of a node is its path.
handle_of(node, path) ==
    IF "handle" \in DOMAIN node THEN node.handle ELSE path

\* Dom::update_positions.  The result is [ok, dom]; ok is FALSE when
\* lookup_node panics because the handle leads to no node, or when the
\* assert_ne!(start, usize::MAX) fails because the previous sibling has no
\* cached position.
RECURSIVE update_positions(_, _, _, _), UpdateChildPositions(_, _, _, _)
UpdateChildPositions(r, node, handle, i) ==
    IF ~r.ok \/ i >= Len(node.children) THEN r
    ELSE UpdateChildPositions(
            update_positions(r.dom, handle_of(node.children[i + 1],
                                              child_handle(handle, i)),
                             0, FALSE),
            node, handle, i + 1)
update_positions(d, handle, old_len, update_next_nodes) ==
    LET node == lookup_node(d.document, handle)
        index == IF has_parent(handle) THEN index_in_parent(handle) ELSE 0
        node_len == NodeLen(node)
        diff_size == node_len - old_len
        known ==
            /\ IsHandleIn(d.document, handle)
            /\ has_parent(handle) /\ index /= 0
                  => HasPosition(d, prev_sibling_handle(handle))
        start ==
            IF has_parent(handle)
            THEN IF index = 0
                 THEN IF HasPosition(d, parent_handle(handle))
                      THEN position_for_handle(d, parent_handle(handle)).start
                      ELSE 0
                 ELSE position_for_handle(d, prev_sibling_handle(handle)).end
            ELSE 0
        end == start + node_len
        d1 == IF has_parent(handle)
              THEN [d EXCEPT
                      !.positions_for_handles =
                          Put(@, handle, NodePosition(start, end)),
                      !.handles_for_start = AddHandle(@, start, handle),
                      !.handles_for_end = AddHandle(@, start, handle)]
              ELSE d
        r2 == IF IsText(node) THEN [ok |-> TRUE, dom |-> d1]
              ELSE UpdateChildPositions([ok |-> TRUE, dom |-> d1], node, handle, 0)
    IN  IF ~known THEN [ok |-> FALSE, dom |-> d]
        ELSE IF r2.ok /\ update_next_nodes
             THEN [ok |-> TRUE, dom |-> ShiftNextNodes(r2.dom, end, diff_size)]
             ELSE r2

\* Dom::new
DomNew(top_level_items) ==
    update_positions(
        [document |-> ContainerNode(<<>>, top_level_items),
         handles_for_start |-> EmptyMap,
         handles_for_end |-> EmptyMap,
         positions_for_handles |-> EmptyMap],
        RootHandle, 0, FALSE).dom

\* Dom::append (ContainerNode::append on the document, then update_positions)
DomAppend(d, child) ==
    LET handle == child_handle(RootHandle, Len(children(d)))
        d1 == [d EXCEPT !.document.children = Append(@, child)]
    IN  update_positions(d1, handle, 0, FALSE)

-----------------------------------------------------------------------------
(* Finding a position (dom_traverser.rs) and a range (dom.rs).             *)

NoHandle == <<-1>>

Found(node_handle, position, offset) ==
    [found |-> TRUE, node_handle |-> node_handle,
     position |-> position, offset |-> offset]

NotFound(position) ==
    [found |-> FALSE, node_handle |-> NoHandle,
     position |-> position, offset |-> 0]

\* set_cached_position: the cache entry of the handle is written
set_cached_position(d, h, position) ==
    [d EXCEPT !.positions_for_handles = Put(@, h, position)]

\* Dom::find_pos.  The accumulator r is [dom, results].
RECURSIVE find_pos(_, _, _, _, _), process_element(_, _, _, _, _, _, _)
process_element(r, node, handle, i, start, end, offset) ==
    IF i >= Len(node.children) THEN r
    ELSE LET off == IF r.results = <<>> THEN offset
                    ELSE Last(r.results).position.end
         IN  process_element(
                find_pos(r, child_handle(handle, i), start, end, off),
                node, handle, i + 1, start, end, offset)
find_pos(r, node_handle, start, end, offset) ==
    IF offset > end THEN r
    ELSE LET node == lookup_node(r.dom.document, node_handle)
             len == Len(node.data)
             position ==
                 IF HasPosition(r.dom, node_handle)
                 THEN position_for_handle(r.dom, node_handle)
                 ELSE NodePosition(offset, offset + len)
             new_offset == IF start >= offset THEN start - offset ELSE 0
         IN  IF IsText(node)
             THEN [dom |-> set_cached_position(r.dom, node_handle, position),
                   results |->
                     Append(r.results,
                        IF start <= offset + len
                        THEN Found(node_handle,
                                   NodePosition(offset, offset + len),
                                   new_offset)
                        ELSE NotFound(position))]
             ELSE process_element(r, node, node_handle, 0, start, end, offset)

\* the results of find_range_mut that designate a text node; a NotFound result
\* carries no handle (dom_traverser.rs:30-32) and designates none
TextResults(d, results) ==
    SelectSeq(results,
              LAMBDA x : x.found /\ IsText(lookup_node(d.document, x.node_handle)))

\* Dom::find_range_mut.  The result is [dom, range]; the offsets of a SameNode
\* range are usize differences, kept here as integers: a negative one stands
\* for the underflow of the subtraction.
find_range_mut(d, start, end) ==
    IF children(d) = <<>>
    THEN [dom |-> d, range |-> [kind |-> "NoNode"]]
    ELSE LET r == find_pos([dom |-> d, results |-> <<>>],
                           RootHandle, start, end, 0)
             found == TextResults(r.dom, r.results)
         IN  [dom |-> r.dom,
              range |->
                IF Len(found) = 1
                THEN [kind |-> "SameNode",
                      node_handle |-> found[1].node_handle,
                      start_offset |-> start - found[1].position.start,
                      end_offset |-> end - found[1].position.start]
                ELSE IF Len(found) = 0 THEN [kind |-> "NoNode"]
                ELSE [kind |-> "TooDifficultForMe"]]

-----------------------------------------------------------------------------
(* ComposerModel (composer_model.rs).  The operators work on a record      *)
(* m = [states, cur_state_index, panicked]; cur_state_index is 0-based as  *)
(* in the source, so the current state is states[cur_state_index + 1].     *)

ComposerState(d, start, end) == [dom |-> d, start |-> start, end |-> end]

\* ComposerState::new
ComposerStateNew == ComposerState(DomNew(<<>>), 0, 0)

\* ComposerModel::new
ComposerModelNew ==
    [states |-> <<ComposerStateNew>>, cur_state_index |-> 0, panicked |-> FALSE]

\* Location -= n: a Location never goes below 0
\* (backspacing_a_character_at_the_beginning_does_nothing)
LocationSub(loc, n) == IF loc - n < 0 THEN 0 ELSE loc - n

\* Location += n
LocationAdd(loc, n) == loc + n

get_current_state(m) == m.states[m.cur_state_index + 1]

get_current_state_copy(m) == m.states[m.cur_state_index + 1]

\* a write through get_current_state_mut / with_cur_state: the stored state
\* itself is changed
with_cur_state(m, state) ==
    [m EXCEPT !.states[m.cur_state_index + 1] = state]

Panic(m) == [m EXCEPT !.panicked = TRUE]

\* Vec::shrink_to(min_capacity) lowers the capacity of the vector; its length
\* and its elements stay as they are
shrink_to(vec, min_capacity) == vec

\* ComposerModel::select
select(m, start, end) ==
    with_cur_state(m, [get_current_state(m) EXCEPT !.start = start, !.end = end])

\* ComposerModel::safe_selection
safe_selection(m) ==
    LET cur_state == get_current_state(m)
        html_len == HtmlLen(cur_state.dom.document)
        s == Clamp(cur_state.start, 0, html_len)
        e == Clamp(cur_state.end, 0, html_len)
    IN  IF s > e THEN <<e, s>> ELSE <<s, e>>

\* the slices of replace_same_node are in bounds
SameNodeInBounds(d, range) ==
    LET text == lookup_node(d.document, range.node_handle).data
    IN  /\ 0 <= range.start_offset /\ range.start_offset <= Len(text)
        /\ 0 <= range.end_offset /\ range.end_offset <= Len(text)

\* ComposerModel::replace_same_node, on the Dom of the state (in bounds)
replace_same_node(d, range, new_text) ==
    LET node == lookup_node(d.document, range.node_handle)
        text == node.data
        n == Take(text, range.start_offset) \o new_text
             \o Drop(text, range.end_offset)
    IN  [d EXCEPT !.document =
            SetNode(@, range.node_handle, [node EXCEPT !.data = n])]

\* the new state is pushed and becomes state number cur_state_index + 1
PushState(m, cur_state) ==
    [m EXCEPT !.cur_state_index = @ + 1, !.states = Append(@, cur_state)]

\* ComposerModel::replace_text_in
replace_text_in(m, new_text, start, end) ==
    LET cur_state == get_current_state_copy(m)
        m1 == [m EXCEPT !.states = shrink_to(@, m.cur_state_index)]
        fr == find_range_mut(cur_state.dom, start, end)
        range == fr.range
        pos == start + Len(new_text)
        appended == DomAppend(fr.dom, TextNode(new_text))
    IN  CASE range.kind = "SameNode" ->
                IF SameNodeInBounds(fr.dom, range)
                THEN PushState(m1,
                        ComposerState(replace_same_node(fr.dom, range, new_text),
                                      pos, pos))
                ELSE Panic(m1)
          [] range.kind = "NoNode" ->
                IF appended.ok
                THEN PushState(m1,
                        ComposerState(appended.dom, Len(new_text), Len(new_text)))
                ELSE Panic(m1)
          [] OTHER -> Panic(m1)

\* ComposerModel::replace_text
replace_text(m, new_text) ==
    LET se == safe_selection(m)
    IN  replace_text_in(m, new_text, se[1], se[2])

\* ComposerModel::backspace
backspace(m) ==
    LET cur_state == get_current_state(m)
        m1 == IF cur_state.start = cur_state.end
              THEN with_cur_state(m,
                      [cur_state EXCEPT !.start = LocationSub(@, 1)])
              ELSE m
    IN  replace_text(m1, <<>>)

\* ComposerModel::delete_in
delete_in(m, start, end) ==
    replace_text_in(
        with_cur_state(m, [get_current_state(m) EXCEPT !.end = start]),
        <<>>, start, end)

\* ComposerModel::delete
delete(m) ==
    LET cur_state == get_current_state(m)
        m1 == IF cur_state.start = cur_state.end
              THEN with_cur_state(m,
                      [cur_state EXCEPT !.end = LocationAdd(@, 1)])
              ELSE m
    IN  replace_text(m1, <<>>)

\* ComposerModel::bold
bold(m) ==
    LET cur_state == get_current_state_copy(m)
        m1 == [m EXCEPT !.states = shrink_to(@, m.cur_state_index)]
        se == safe_selection(m1)
        t == children(cur_state.dom)[1]
        text == t.data
        before == Take(text, se[1])
        during == SubSeq(text, se[1] + 1, se[2])
        after == Drop(text, se[2])
        d1 == [cur_state.dom EXCEPT !.document.children[1].data = before]
        r2 == DomAppend(d1, FormattingNode(StrongName, <<TextNode(during)>>))
        r3 == DomAppend(r2.dom, TextNode(after))
    IN  IF Len(children(cur_state.dom)) = 1 /\ IsText(t)
        THEN IF r2.ok /\ r3.ok
             THEN PushState(m1, [cur_state EXCEPT !.dom = r3.dom])
             ELSE Panic(m1)
        ELSE Panic(m1)

\* an undo that pops the state it leaves, as a stack of states would
undo_popping(m) ==
    IF m.cur_state_index > 0
    THEN [m EXCEPT !.cur_state_index = @ - 1,
                   !.states = SubSeq(@, 1, Len(@) - 1)]
    ELSE m

\* ComposerModel::undo
undo(m) ==
    IF m.cur_state_index > 0
    THEN [m EXCEPT !.cur_state_index = @ - 1]
    ELSE m

\* ComposerModel::redo
redo(m) ==
    IF m.cur_state_index < Len(m.states) - 1
    THEN [m EXCEPT !.cur_state_index = @ + 1]
    ELSE m

\* the ComposerUpdate that undo and redo return: create_update_replace_all()
\* when the cursor moves, ComposerUpdate::keep() when it does not
undo_update(m) ==
    IF m.cur_state_index > 0 THEN "replace_all" ELSE "keep"

redo_update(m) ==
    IF m.cur_state_index < Len(m.states) - 1 THEN "replace_all" ELSE "keep"

\* ComposerModel::get_previous_states
get_previous_states(m) == SubSeq(m.states, 1, m.cur_state_index)

\* ComposerModel::get_next_states
get_next_states(m) == SubSeq(m.states, m.cur_state_index + 2, Len(m.states))

-----------------------------------------------------------------------------
(* The composer as a state machine: one action per public call.            *)

\* the texts a caller types
NewTexts == {<<>>, <<"a">>, <<"b", "c">>}

\* the offsets a caller passes: up to one past the end of the current text
Locations ==
    0..Min(MaxLoc, NodeLen(states[cur_state_index + 1].dom.document) + 1)

EditNames ==
    {"replace_text", "replace_text_in", "backspace", "delete", "delete_in", "bold"}

Model == [states |-> states, cur_state_index |-> cur_state_index,
          panicked |-> panicked]

Op(name, text, start, end) ==
    [name |-> name, text |-> text, start |-> start, end |-> end,
     before |-> get_current_state(Model), index |-> cur_state_index]

\* a call that returns a ComposerUpdate the properties look at
OpReturning(name, update) ==
    [name |-> name, text |-> <<>>, start |-> 0, end |-> 0,
     before |-> get_current_state(Model), index |-> cur_state_index,
     update |-> update]

\* the document being edited stays within the bound
Fits(new_text) ==
    NodeLen(get_current_state(Model).dom.document) + Len(new_text) <= MaxDocLen

CanEdit == ~panicked /\ Len(states) < MaxStates

\* the model after a call
Becomes(m) ==
    /\ states' = m.states
    /\ cur_state_index' = m.cur_state_index
    /\ panicked' = m.panicked
    /\ UNCHANGED <<dom, ret>>

\* the history variables after an edit: while no undo is outstanding the state
\* now current is recorded as the state after this edit
EditRecorded(m) ==
    /\ selects' = selects
    /\ IF ~m.panicked /\ expect = Len(after_edit) - 1
       THEN /\ after_edit' = Append(after_edit, get_current_state(m))
            /\ expect' = expect + 1
       ELSE /\ after_edit' = after_edit
            /\ expect' = -1

Init ==
    /\ states = ComposerModelNew.states
    /\ cur_state_index = ComposerModelNew.cur_state_index
    /\ panicked = ComposerModelNew.panicked
    /\ last_op = [name |-> "new", text |-> <<>>, start |-> 0, end |-> 0,
                  before |-> ComposerStateNew, index |-> 0]
    /\ selects = 0
    /\ after_edit = <<ComposerStateNew>>
    /\ expect = 0
    /\ dom = ContainerNode(<<>>, <<>>)
    /\ ret = <<>>

Select ==
    \E start \in Locations, end \in Locations :
        /\ ~panicked /\ selects < MaxSelects
        /\ Becomes(select(Model, start, end))
        /\ last_op' = Op("select", <<>>, start, end)
        /\ selects' = selects + 1
        /\ after_edit' = after_edit
        /\ expect' = -1

ReplaceText ==
    \E new_text \in NewTexts :
        /\ CanEdit /\ Fits(new_text)
        /\ Becomes(replace_text(Model, new_text))
        /\ last_op' = Op("replace_text", new_text, 0, 0)
        /\ EditRecorded(replace_text(Model, new_text))

ReplaceTextIn ==
    \E new_text \in NewTexts, start \in Locations, end \in Locations :
        /\ CanEdit /\ Fits(new_text)
        /\ Becomes(replace_text_in(Model, new_text, start, end))
        /\ last_op' = Op("replace_text_in", new_text, start, end)
        /\ EditRecorded(replace_text_in(Model, new_text, start, end))

Backspace ==
    /\ CanEdit
    /\ Becomes(backspace(Model))
    /\ last_op' = Op("backspace", <<>>, 0, 0)
    /\ EditRecorded(backspace(Model))

DeleteIn ==
    \E start \in Locations, end \in Locations :
        /\ CanEdit
        /\ Becomes(delete_in(Model, start, end))
        /\ last_op' = Op("delete_in", <<>>, start, end)
        /\ EditRecorded(delete_in(Model, start, end))

Delete ==
    /\ CanEdit
    /\ Becomes(delete(Model))
    /\ last_op' = Op("delete", <<>>, 0, 0)
    /\ EditRecorded(delete(Model))

Bold ==
    /\ CanEdit
    /\ Becomes(bold(Model))
    /\ last_op' = Op("bold", <<>>, 0, 0)
    /\ EditRecorded(bold(Model))

Undo ==
    /\ ~panicked
    /\ Becomes(undo(Model))
    /\ last_op' = OpReturning("undo", undo_update(Model))
    /\ selects' = selects
    /\ after_edit' = after_edit
    /\ expect' = IF expect > 0 THEN expect - 1 ELSE -1

Redo ==
    /\ ~panicked
    /\ Becomes(redo(Model))
    /\ last_op' = OpReturning("redo", redo_update(Model))
    /\ selects' = selects
    /\ after_edit' = after_edit
    /\ expect' = IF expect >= 0 /\ expect < Len(after_edit) - 1
                 THEN expect + 1 ELSE -1

Next ==
    \/ Select
    \/ ReplaceText
    \/ ReplaceTextIn
    \/ Backspace
    \/ DeleteIn
    \/ Delete
    \/ Bold
    \/ Undo
    \/ Redo

Spec == Init /\ [][Next]_vars

\* the history alone: typing and backspacing build it, undo and redo walk it
NextHistory ==
    \/ ReplaceText
    \/ Backspace
    \/ Undo
    \/ Redo

SpecHistory == Init /\ [][NextHistory]_vars

-----------------------------------------------------------------------------
(* Properties of the composer (checked under Spec).                        *)

CurrentState == states[cur_state_index + 1]

CurrentTree == CurrentState.dom.document

\* the tree and the selection of a stored state (what a caller can observe)
Observed(state) ==
    [tree |-> state.dom.document, start |-> state.start, end |-> state.end]

TextHandles(root) ==
    {h \in {HandlesBelow(root, RootHandle)[i] :
                i \in 1..Len(HandlesBelow(root, RootHandle))} :
        IsText(lookup_node(root, h))}

HasEmptyText(root) ==
    \E h \in TextHandles(root) : lookup_node(root, h).data = <<>>

\* C1: after every public edit call the current tree holds no text node
\* whose data has length zero.
C1_NoEmptyTextNode ==
    (last_op.name \in EditNames /\ ~panicked) => ~HasEmptyText(CurrentTree)

\* C3: after any edit the state produced by the edit is current and is the
\* last state of the history, so that redo has nothing to move to.
C3_EditDiscardsRedoBranch ==
    (last_op.name \in EditNames /\ ~panicked) =>
        /\ cur_state_index = Len(states) - 1
        /\ get_next_states(Model) = <<>>

\* C4: on a fresh model, after n edits, k undos and then redos, the tree and
\* the selection that are current are those that were current right after
\* the edit the cursor stands at.
C4_UndoRedoRestore ==
    (expect >= 0 /\ ~panicked) =>
        Observed(CurrentState) = Observed(after_edit[expect + 1])

\* the tree before the call is empty or one text node holding t
SingleTextOrEmpty(root) ==
    \/ root.children = <<>>
    \/ Len(root.children) = 1 /\ IsText(root.children[1])

\* C5: replace_text_in(text, start, end) with start <= end <= length on an
\* empty or single-text tree holding t yields t[..start] ++ text ++ t[end..]
\* and the collapsed selection start + len(text).
C5_ReplaceTextInSplices ==
    LET t == Flatten(last_op.before.dom.document)
        pos == last_op.start + Len(last_op.text)
    IN  ( /\ last_op.name = "replace_text_in"
          /\ ~panicked
          /\ SingleTextOrEmpty(last_op.before.dom.document)
          /\ last_op.start <= last_op.end
          /\ last_op.end <= Len(t) ) =>
            /\ Flatten(CurrentTree) =
                   Take(t, last_op.start) \o last_op.text \o Drop(t, last_op.end)
            /\ CurrentState.start = pos
            /\ CurrentState.end = pos

\* C10: the selection that replace_text, backspace and delete edit with lies
\* within [0, length of the flattened text] and is in order.
C10_SafeSelectionWithinText ==
    ~panicked =>
        /\ safe_selection(Model)[1] <= safe_selection(Model)[2]
        /\ safe_selection(Model)[2] <= Len(Flatten(CurrentTree))

\* a model holding only the state the last call started from
ModelBefore ==
    [states |-> <<last_op.before>>, cur_state_index |-> 0, panicked |-> FALSE]

\* the offsets of the last call clamped to [0, length] and put in order
ClampedOffsets ==
    LET len == NodeLen(last_op.before.dom.document)
        s == Clamp(last_op.start, 0, len)
        e == Clamp(last_op.end, 0, len)
    IN  <<Min(s, e), Max(s, e)>>

\* the last call made again from the same state with the clamped offsets
ClampedCall ==
    IF last_op.name = "delete_in"
    THEN delete_in(ModelBefore, ClampedOffsets[1], ClampedOffsets[2])
    ELSE replace_text_in(ModelBefore, last_op.text,
                         ClampedOffsets[1], ClampedOffsets[2])

OffsetsOutOfRange ==
    \/ last_op.start > last_op.end
    \/ last_op.end > NodeLen(last_op.before.dom.document)
    \/ last_op.start > NodeLen(last_op.before.dom.document)

\* C11: replace_text_in and delete_in called with an offset beyond the
\* document length, or with start > end, do not abort and leave the tree and
\* the selection that the call with the offsets clamped and ordered leaves.
C11_OffsetsAreClamped ==
    ( /\ last_op.name \in {"replace_text_in", "delete_in"}
      /\ OffsetsOutOfRange
      /\ ~ClampedCall.panicked ) =>
        /\ ~panicked
        /\ Observed(CurrentState) = Observed(get_current_state(ClampedCall))


\* C18: every edit operation (replace_text, backspace, delete, delete_in,
\* bold) returns having created a history entry: the cursor index is one more
\* than before the call and there is at least one previous state.
C18_EditCreatesHistoryEntry ==
    last_op.name \in {"replace_text", "backspace", "delete", "delete_in", "bold"} =>
        /\ ~panicked
        /\ cur_state_index = last_op.index + 1
        /\ get_previous_states(Model) /= <<>>


\* the call is undo() at index 0 or redo() at the last index
AtEndOfHistory(name, index, stored) ==
    \/ name = "undo" /\ index = 0
    \/ name = "redo" /\ index = Len(stored) - 1

\* C19: undo() at index 0 and redo() at the last index leave the cursor, the
\* stored states and with them the current tree and selection as they were
\* and return the keep update; any other undo() or redo() moves the cursor by
\* one and leaves every stored state as it was.
C19_UndoRedoMoveOnlyTheCursor ==
    [][last_op'.name \in {"undo", "redo"} =>
        /\ ~panicked'
        /\ states' = states
        /\ IF AtEndOfHistory(last_op'.name, cur_state_index, states)
           THEN /\ cur_state_index' = cur_state_index
                /\ CurrentState' = CurrentState
                /\ last_op'.update = "keep"
           ELSE /\ cur_state_index' =
                      cur_state_index + (IF last_op'.name = "undo" THEN -1 ELSE 1)
                /\ last_op'.update = "replace_all"]_vars

\* undo() was called at index 0 of a history of several states
C19_Witness ==
    /\ last_op.name = "undo"
    /\ last_op.index = 0
    /\ last_op.update = "keep"
    /\ cur_state_index = 0
    /\ Len(states) > 1


\* C20: an edit (replace_text, backspace, delete, delete_in) that returns
\* leaves every state that was stored before it unchanged in tree and
\* selection, so that an undo() right after it makes current the tree and the
\* selection that were current before it.
C20_EditLeavesStoredStates ==
    [][(last_op'.name \in {"replace_text", "backspace", "delete", "delete_in"}
        /\ ~panicked') =>
            /\ \A i \in 1..Min(Len(states), Len(states')) :
                    Observed(states'[i]) = Observed(states[i])
            /\ Observed(get_current_state(undo(Model')))
               = Observed(CurrentState)]_vars

-----------------------------------------------------------------------------
(* The Dom of dom/find_range.rs and dom/dom_methods.rs.  A container node  *)
(* carries its kind in the kind field; the root is the Generic container   *)
(* of the document.                                                        *)

LineBreak ==
    [kind |-> "LineBreak", name |-> <<>>, data |-> <<>>, children |-> <<>>]

Container(kind, child_nodes) ==
    [kind |-> kind, name |-> <<>>, data |-> <<>>, children |-> child_nodes]

is_text_node(node) == node.kind = "Text"

is_container_node(node) == node.kind \notin {"Text", "LineBreak"}

\* Dom::new_with_root
new_with_root(root) == root

\* DomHandle::is_root
is_root(h) == h = RootHandle

\* DomHandle::depth
depth_of(h) == Len(h)

\* DomHandle::sub_handle_up_to
sub_handle_up_to(h, depth) == SubSeq(h, 1, depth)

\* DomHandle::is_ancestor_of
is_ancestor_of(ancestor, h) ==
    Len(ancestor) < Len(h) /\ SubSeq(h, 1, Len(ancestor)) = ancestor

\* Vec::remove(index) and Vec::insert(index, element), 0-based
RemoveAt(s, i) == SubSeq(s, 1, i) \o SubSeq(s, i + 2, Len(s))

InsertAt(s, i, x) == SubSeq(s, 1, i) \o <<x>> \o SubSeq(s, i + 1, Len(s))

\* the handles of a tree as a set
HandleSet(root) ==
    {HandlesBelow(root, RootHandle)[i] :
        i \in 1..Len(HandlesBelow(root, RootHandle))}

\* Dom::remove: the tree without the node at h; later siblings shift down
remove(root, h) ==
    SetNode(root, parent_handle(h),
        [lookup_node(root, parent_handle(h)) EXCEPT
            !.children = RemoveAt(@, index_in_parent(h))])

\* ContainerNode::insert_child through the handle of the parent
insert_child(root, parent, index, node) ==
    SetNode(root, parent,
        [lookup_node(root, parent) EXCEPT
            !.children = InsertAt(@, index, node)])

-----------------------------------------------------------------------------
(* dom/find_range.rs                                                       *)

DomLocation(node_handle, position, start_offset, end_offset, length, is_leaf) ==
    [node_handle |-> node_handle, position |-> position,
     start_offset |-> start_offset, end_offset |-> end_offset,
     length |-> length, is_leaf |-> is_leaf]

\* DomLocation::reversed
reversed(location) ==
    [location EXCEPT !.start_offset = location.end_offset,
                     !.end_offset = location.start_offset]

\* process_text_node with the end of the selection ignored: every located
\* node is covered up to its end
process_text_node_to_node_end(node, handle, start, end, offset) ==
    LET node_len == Len(node.data)
        node_start == offset
        node_end == node_start + node_len
        outside_selection_range == start > node_end \/ end < node_start
        is_cursor == start = end
        start_offset == Max(start, node_start) - node_start
    IN  [offset |-> offset + node_len,
         locations |->
            IF \/ outside_selection_range
               \/ (start = node_end /\ ~is_cursor)
               \/ (node_start = end /\ end /= 0)
            THEN <<>>
            ELSE <<DomLocation(handle, node_start, start_offset, node_len,
                               node_len, TRUE)>>]

\* process_text_node with a cursor on the boundary of two leaves held by the
\* leaf that begins there
process_text_node_at_leaf_start(node, handle, start, end, offset) ==
    LET node_len == Len(node.data)
        node_start == offset
        node_end == node_start + node_len
        outside_selection_range == start > node_end \/ end < node_start
        start_offset == Max(start, node_start) - node_start
        end_offset == Min(end, node_end) - node_start
    IN  [offset |-> offset + node_len,
         locations |->
            IF \/ outside_selection_range
               \/ (start = node_end /\ node_len /= 0)
            THEN <<>>
            ELSE <<DomLocation(handle, node_start, start_offset, end_offset,
                               node_len, TRUE)>>]

\* process_text_node: the location of the node, if any, and the offset after it
process_text_node(node, handle, start, end, offset) ==
    LET node_len == Len(node.data)
        node_start == offset
        node_end == node_start + node_len
        outside_selection_range == start > node_end \/ end < node_start
        is_cursor == start = end
        start_offset == Max(start, node_start) - node_start
        end_offset == Min(end, node_end) - node_start
    IN  [offset |-> offset + node_len,
         locations |->
            IF \/ outside_selection_range
               \/ (start = node_end /\ ~is_cursor)
               \/ (node_start = end /\ end /= 0)
            THEN <<>>
            ELSE <<DomLocation(handle, node_start, start_offset, end_offset,
                               node_len, TRUE)>>]

\* do_find_pos and process_container_node; r carries the offset and the
\* locations gathered so far
RECURSIVE do_find_pos(_, _, _, _, _), process_children(_, _, _, _, _, _)
\* do_find_pos with the location of a container recorded before the
\* locations of its children
do_find_pos_container_first(root, node_handle, start, end, offset) ==
    LET node == lookup_node(root, node_handle)
        container_start == offset
        inner == process_children(root, node_handle, 0, start, end,
                    [offset |-> offset, locations |-> <<>>])
        container_end == inner.offset
        start_offset == Max(start, container_start) - container_start
        end_offset == Min(end, container_end) - container_start
    IN  IF offset > end THEN [offset |-> offset, locations |-> <<>>]
        ELSE IF is_text_node(node)
        THEN process_text_node(node, node_handle, start, end, offset)
        ELSE [offset |-> container_end,
              locations |->
                 IF node_handle = RootHandle THEN inner.locations
                 ELSE <<DomLocation(node_handle, container_start, start_offset,
                                    end_offset, container_end - container_start,
                                    FALSE)>> \o inner.locations]
process_children(root, handle, i, start, end, r) ==
    IF i >= Len(lookup_node(root, handle).children) THEN r
    ELSE LET found == do_find_pos(root, child_handle(handle, i), start, end,
                                  r.offset)
         IN  process_children(root, handle, i + 1, start, end,
                [offset |-> found.offset,
                 locations |-> r.locations \o found.locations])
do_find_pos(root, node_handle, start, end, offset) ==
    LET node == lookup_node(root, node_handle)
        container_start == offset
        inner == process_children(root, node_handle, 0, start, end,
                    [offset |-> offset, locations |-> <<>>])
        container_end == inner.offset
        container_node_len == container_end - container_start
        start_offset == Max(start, container_start) - container_start
        end_offset == Min(end, container_end) - container_start
    IN  IF offset > end THEN [offset |-> offset, locations |-> <<>>]
        ELSE IF is_text_node(node)
        THEN process_text_node(node, node_handle, start, end, offset)
        ELSE [offset |-> container_end,
              locations |->
                 IF node_handle = RootHandle THEN inner.locations
                 ELSE Append(inner.locations,
                        DomLocation(node_handle, container_start, start_offset,
                                    end_offset, container_node_len, FALSE))]

\* find_pos of find_range.rs: the locations found, empty for NotFound
find_pos_in(root, node_handle, start, end) ==
    do_find_pos(root, node_handle, start, end, 0).locations

IsLeafLocation(l) == l.is_leaf

\* find_range that takes the single-leaf path only when the walk recorded
\* nothing but that leaf
find_range_lone_location(root, start0, end0) ==
    LET is_reversed == end0 < start0
        start == IF is_reversed THEN end0 ELSE start0
        end == IF is_reversed THEN start0 ELSE end0
        locations == find_pos_in(root, RootHandle, start, end)
        leaf_locations == SelectSeq(locations, IsLeafLocation)
        location == IF is_reversed THEN reversed(leaf_locations[1])
                    ELSE leaf_locations[1]
    IN  IF root.children = <<>> THEN [kind |-> "NoNode"]
        ELSE IF locations = <<>> THEN [kind |-> "NoNode"]
        ELSE IF Len(leaf_locations) = 1 /\ Len(locations) = 1
        THEN [kind |-> "SameNode", node_handle |-> location.node_handle,
              start_offset |-> location.start_offset,
              end_offset |-> location.end_offset]
        ELSE [kind |-> "MultipleNodes",
              locations |-> IF is_reversed
                            THEN [i \in 1..Len(locations) |->
                                    reversed(locations[i])]
                            ELSE locations]

\* find_range
find_range(root, start0, end0) ==
    LET is_reversed == end0 < start0
        start == IF is_reversed THEN end0 ELSE start0
        end == IF is_reversed THEN start0 ELSE end0
        locations == find_pos_in(root, RootHandle, start, end)
        leaf_locations == SelectSeq(locations, IsLeafLocation)
        location == IF is_reversed THEN reversed(leaf_locations[1])
                    ELSE leaf_locations[1]
    IN  IF root.children = <<>> THEN [kind |-> "NoNode"]
        ELSE IF locations = <<>> THEN [kind |-> "NoNode"]
        ELSE IF Len(leaf_locations) = 1
        THEN [kind |-> "SameNode", node_handle |-> location.node_handle,
              start_offset |-> location.start_offset,
              end_offset |-> location.end_offset]
        ELSE [kind |-> "MultipleNodes",
              locations |-> IF is_reversed
                            THEN [i \in 1..Len(locations) |->
                                    reversed(locations[i])]
                            ELSE locations]

-----------------------------------------------------------------------------
(* dom/dom_methods.rs                                                      *)

\* usize::MAX, the end offset that split_sub_tree_from passes on; it is only
\* compared with offsets of text nodes
usize_MAX == 2147483647

\* Option::None for a handle
None == NoHandle

\* merge_if_adjacent_text_nodes, on the parent node
merge_if_adjacent_text_nodes(parent, index) ==
    IF /\ index + 2 <= Len(parent.children)
       /\ is_text_node(parent.children[index + 1])
       /\ is_text_node(parent.children[index + 2])
    THEN [parent EXCEPT
            !.children = RemoveAt(
                [@ EXCEPT ![index + 1].data =
                    @ \o parent.children[index + 2].data],
                index + 1)]
    ELSE parent

\* Dom::merge_text_nodes_around
merge_text_nodes_around(root, handle) ==
    LET parent == lookup_node(root, parent_handle(handle))
        idx == index_in_parent(handle)
        p1 == IF idx > 0 THEN merge_if_adjacent_text_nodes(parent, idx - 1)
              ELSE parent
    IN  SetNode(root, parent_handle(handle),
                merge_if_adjacent_text_nodes(p1, idx))

\* Dom::remove_and_keep_children
remove_and_keep_children(root, node_handle) ==
    LET parent == lookup_node(root, parent_handle(node_handle))
        index == index_in_parent(node_handle)
        node == parent.children[index + 1]
        kept == IF is_container_node(node) THEN node.children ELSE <<>>
        last_index == index + Len(kept)
        p0 == [parent EXCEPT
                !.children = SubSeq(@, 1, index) \o kept
                             \o SubSeq(@, index + 2, Len(@))]
        p1 == IF last_index > 0
              THEN merge_if_adjacent_text_nodes(p0, last_index - 1) ELSE p0
        p2 == IF index > 0
              THEN merge_if_adjacent_text_nodes(p1, index - 1) ELSE p1
    IN  SetNode(root, parent_handle(node_handle), p2)

\* Ord for DomHandle: lexicographic order of the paths
RECURSIVE HandleLess(_, _)
HandleLess(a, b) ==
    IF a = <<>> THEN b /= <<>>
    ELSE IF b = <<>> THEN FALSE
    ELSE IF Head(a) /= Head(b) THEN Head(a) < Head(b)
    ELSE HandleLess(Tail(a), Tail(b))

\* Vec::sort of a list of distinct handles
RECURSIVE SortHandles(_)
SortHandles(hs) ==
    IF hs = {} THEN <<>>
    ELSE LET m == CHOOSE h \in hs : \A g \in hs \ {h} : HandleLess(g, h)
         IN  Append(SortHandles(hs \ {m}), m)

InSeq(x, s) == \E i \in 1..Len(s) : s[i] = x

\* one turn of the loop of delete_nodes without the test for the root: the
\* root handle reaches Dom::remove as any other handle
delete_nodes_step_root_unchecked(root, to_delete, deleted) ==
    LET handle == Last(to_delete)
        rest == SubSeq(to_delete, 1, Len(to_delete) - 1)
        removed == remove(root, handle)
        parent == lookup_node(removed, parent_handle(handle))
    IN  IF handle \notin HandleSet(root) \/ ~has_parent(handle)
        THEN [dom |-> root, to_delete |-> rest, deleted |-> deleted,
              panicked |-> TRUE]
        ELSE [dom |-> removed,
              to_delete |->
                 IF /\ parent.children = <<>>
                    /\ ~InSeq(parent_handle(handle), rest)
                    /\ ~InSeq(parent_handle(handle), Append(deleted, handle))
                 THEN Append(rest, parent_handle(handle))
                 ELSE rest,
              deleted |-> Append(deleted, handle),
              panicked |-> FALSE]

\* one turn of the loop of Dom::delete_nodes: the last handle is popped and,
\* unless it is the root, removed; the parent is queued when it is left empty.
\* Dom::remove panics on a handle that designates no node or has no parent
delete_nodes_step(root, to_delete, deleted) ==
    LET handle == Last(to_delete)
        rest == SubSeq(to_delete, 1, Len(to_delete) - 1)
        removed == remove(root, handle)
        parent == lookup_node(removed, parent_handle(handle))
    IN  IF is_root(handle)
        THEN [dom |-> root, to_delete |-> rest, deleted |-> deleted,
              panicked |-> FALSE]
        ELSE IF handle \notin HandleSet(root) \/ ~has_parent(handle)
        THEN [dom |-> root, to_delete |-> rest, deleted |-> deleted,
              panicked |-> TRUE]
        ELSE [dom |-> removed,
              to_delete |->
                 IF /\ parent.children = <<>>
                    /\ ~InSeq(parent_handle(handle), rest)
                    /\ ~InSeq(parent_handle(handle), Append(deleted, handle))
                 THEN Append(rest, parent_handle(handle))
                 ELSE rest,
              deleted |-> Append(deleted, handle),
              panicked |-> FALSE]

\* the loop of Dom::delete_nodes
RECURSIVE delete_nodes_loop(_, _, _)
delete_nodes_loop(root, to_delete, deleted) ==
    IF to_delete = <<>>
    THEN [dom |-> root, deleted |-> deleted, panicked |-> FALSE]
    ELSE LET r == delete_nodes_step(root, to_delete, deleted)
         IN  IF r.panicked
             THEN [dom |-> r.dom, deleted |-> r.deleted, panicked |-> TRUE]
             ELSE delete_nodes_loop(r.dom, r.to_delete, r.deleted)

\* delete_nodes that deletes in document order, the first handle first
delete_nodes_in_document_order(root, to_delete) ==
    LET sorted == SortHandles(to_delete)
    IN  delete_nodes_loop(root,
            [i \in 1..Len(sorted) |-> sorted[Len(sorted) + 1 - i]], <<>>)

\* Dom::delete_nodes
delete_nodes(root, to_delete) ==
    delete_nodes_loop(root, SortHandles(to_delete), <<>>)

\* the location of a line break: a leaf of length 1, held in a range by the
\* rule of process_text_node for a leaf
process_line_break(handle, start, end, offset) ==
    process_text_node(TextNode(<<"BR">>), handle, start, end, offset)

\* the walk of find_range over a tree that may hold line breaks
RECURSIVE find_locations(_, _, _, _, _), find_in_children(_, _, _, _, _, _)
find_in_children(root, handle, i, start, end, r) ==
    IF i >= Len(lookup_node(root, handle).children) THEN r
    ELSE LET found == find_locations(root, child_handle(handle, i), start, end,
                                     r.offset)
         IN  find_in_children(root, handle, i + 1, start, end,
                [offset |-> found.offset,
                 locations |-> r.locations \o found.locations])
find_locations(root, node_handle, start, end, offset) ==
    IF lookup_node(root, node_handle).kind = "LineBreak"
    THEN IF offset > end THEN [offset |-> offset, locations |-> <<>>]
         ELSE process_line_break(node_handle, start, end, offset)
    ELSE IF is_text_node(lookup_node(root, node_handle))
    THEN do_find_pos(root, node_handle, start, end, offset)
    ELSE LET inner == find_in_children(root, node_handle, 0, start, end,
                          [offset |-> offset, locations |-> <<>>])
         IN  IF offset > end THEN [offset |-> offset, locations |-> <<>>]
             ELSE [offset |-> inner.offset,
                   locations |->
                      IF node_handle = RootHandle THEN inner.locations
                      ELSE Append(inner.locations,
                             DomLocation(node_handle, offset,
                                 Max(start, offset) - offset,
                                 Min(end, inner.offset) - offset,
                                 inner.offset - offset, FALSE))]

\* DomNodeKind::is_block_kind
is_block_kind(kind) == kind \in {"Generic", "Paragraph", "ListItem"}

\* DomAction::add_node and DomAction::remove_node
add_node(parent, index, node) ==
    [action |-> "add", parent_handle |-> parent, index |-> index, node |-> node]

remove_node(handle) == [action |-> "remove", handle |-> handle]

\* one turn of the loop of replace_in_text_nodes, for the location loc; acc
\* is [dom, action_list, first_text_node, panicked]
replace_in_location(acc, loc, new_text) ==
    LET node == lookup_node(acc.dom, loc.node_handle)
        old_data == node.data
        new_data == Take(old_data, loc.start_offset)
                    \o (IF acc.first_text_node THEN new_text ELSE <<>>)
                    \o Drop(old_data, loc.end_offset)
        Push(action) == [acc EXCEPT !.action_list = Append(@, action),
                                    !.first_text_node = FALSE]
    IN  IF is_container_node(node)
        THEN IF loc.length = 0 /\ is_block_kind(node.kind)
                /\ node.kind /= "Generic"
             THEN IF new_text = <<>> THEN Push(remove_node(loc.node_handle))
                  ELSE IF ~acc.first_text_node THEN acc
                  ELSE IF node.kind \in {"Paragraph", "ListItem"}
                  THEN Push(add_node(loc.node_handle, 0, TextNode(new_text)))
                  ELSE [acc EXCEPT !.panicked = TRUE]
             ELSE acc
        ELSE IF node.kind = "LineBreak"
        THEN IF loc.start_offset = 0 /\ loc.end_offset = 1
             THEN [acc EXCEPT !.action_list =
                      Append(@, remove_node(loc.node_handle))]
             ELSE IF loc.start_offset = 1 /\ loc.end_offset = 1 THEN acc
             ELSE IF loc.start_offset = 0 /\ loc.end_offset = 0
             THEN IF acc.first_text_node /\ new_text /= <<>>
                  THEN Push(add_node(parent_handle(loc.node_handle),
                                     index_in_parent(loc.node_handle),
                                     TextNode(new_text)))
                  ELSE acc
             ELSE [acc EXCEPT !.panicked = TRUE]
        ELSE IF loc.start_offset = 0 /\ loc.end_offset = Len(old_data)
                /\ ~acc.first_text_node
        THEN Push(remove_node(loc.node_handle))
        ELSE IF new_data = <<>> THEN Push(remove_node(loc.node_handle))
        ELSE [acc EXCEPT
                !.dom = SetNode(@, loc.node_handle,
                                [node EXCEPT !.data = new_data]),
                !.first_text_node = FALSE]

\* the loop of replace_in_text_nodes over the locations of the range
RECURSIVE replace_in_locations(_, _, _)
replace_in_locations(acc, locations, new_text) ==
    IF locations = <<>> \/ acc.panicked THEN acc
    ELSE replace_in_locations(
            replace_in_location(acc, Head(locations), new_text),
            Tail(locations), new_text)

\* Dom::replace_in_text_nodes: the tree with the text nodes rewritten and
\* the list of actions; range.leaves().last().unwrap() panics when the text
\* is to be appended and the range has no leaf
replace_in_text_nodes(root, locations, new_text) ==
    LET acc == replace_in_locations(
                  [dom |-> root, action_list |-> <<>>,
                   first_text_node |-> TRUE, panicked |-> FALSE],
                  locations, new_text)
        leaves == SelectSeq(locations, IsLeafLocation)
        last_leaf == Last(leaves)
    IN  IF acc.panicked \/ ~acc.first_text_node \/ new_text = <<>> THEN acc
        ELSE IF leaves = <<>> THEN [acc EXCEPT !.panicked = TRUE]
        ELSE [acc EXCEPT !.action_list =
                Append(@, add_node(parent_handle(last_leaf.node_handle),
                                   index_in_parent(last_leaf.node_handle) + 1,
                                   TextNode(new_text)))]

IsAddAction(a) == a.action = "add"

IsRemoveAction(a) == a.action = "remove"

\* the add actions of replace_multiple_nodes put before the node of the
\* action instead of at its index
RECURSIVE add_nodes_one_early(_, _)
add_nodes_one_early(root, to_add) ==
    IF to_add = <<>> THEN root
    ELSE add_nodes_one_early(
            insert_child(root, Last(to_add).parent_handle,
                         Max(Last(to_add).index - 1, 0), Last(to_add).node),
            SubSeq(to_add, 1, Len(to_add) - 1))

\* the loop of replace_multiple_nodes over to_add.into_iter().rev(): each
\* node is inserted in its parent, the last action first
RECURSIVE add_nodes(_, _)
add_nodes(root, to_add) ==
    IF to_add = <<>> THEN root
    ELSE add_nodes(
            insert_child(root, Last(to_add).parent_handle, Last(to_add).index,
                         Last(to_add).node),
            SubSeq(to_add, 1, Len(to_add) - 1))

\* the code units of the text; "H" and "L" are the two halves of a character
\* that takes two code units
CodeUnits == {"a", "b", "H", "L"}

\* str::chars().count(): the number of characters of the data
RECURSIVE chars_count(_)
chars_count(data) ==
    IF data = <<>> THEN 0
    ELSE IF Len(data) >= 2 /\ data[1] = "H" /\ data[2] = "L"
    THEN 1 + chars_count(Tail(Tail(data)))
    ELSE 1 + chars_count(Tail(data))

sub_handle_up_to_or_none(handle, depth) ==
    IF depth_of(handle) >= depth THEN sub_handle_up_to(handle, depth) ELSE None

is_ancestor_or_self(ancestor, handle) ==
    is_ancestor_of(ancestor, handle) \/ ancestor = handle

\* split_sub_tree_at_text_node without set_data(left_data): the text node
\* keeps the data that is split off
split_sub_tree_at_text_node_keeps_data(root, cur_handle, start_offset, end_offset, from_handle, to_handle) ==
    LET text_node == lookup_node(root, cur_handle)
        data == text_node.data
        SplitAt(offset) ==
            [dom |-> root,
             nodes |-> IF Drop(data, offset) /= <<>>
                       THEN <<TextNode(Drop(data, offset))>> ELSE <<>>]
    IN  IF /\ \/ cur_handle = from_handle
              \/ /\ is_ancestor_of(from_handle, cur_handle)
                 /\ index_in_parent(cur_handle) = 0
           /\ start_offset \in 1..chars_count(data)
        THEN SplitAt(start_offset)
        ELSE IF /\ to_handle /= None
                /\ cur_handle = to_handle
                /\ end_offset \in 1..chars_count(data)
        THEN SplitAt(end_offset)
        ELSE [dom |-> remove(root, cur_handle), nodes |-> <<text_node>>]

\* Dom::split_sub_tree_at_text_node: the tree left and the nodes split off
split_sub_tree_at_text_node(root, cur_handle, start_offset, end_offset, from_handle, to_handle) ==
    LET text_node == lookup_node(root, cur_handle)
        data == text_node.data
        SplitAt(offset) ==
            [dom |-> SetNode(root, cur_handle,
                        [text_node EXCEPT !.data = Take(data, offset)]),
             nodes |-> IF Drop(data, offset) /= <<>>
                       THEN <<TextNode(Drop(data, offset))>> ELSE <<>>]
    IN  IF /\ \/ cur_handle = from_handle
              \/ /\ is_ancestor_of(from_handle, cur_handle)
                 /\ index_in_parent(cur_handle) = 0
           /\ start_offset \in 1..chars_count(data)
        THEN SplitAt(start_offset)
        ELSE IF /\ to_handle /= None
                /\ cur_handle = to_handle
                /\ end_offset \in 1..chars_count(data)
        THEN SplitAt(end_offset)
        ELSE [dom |-> remove(root, cur_handle), nodes |-> <<text_node>>]

\* Dom::split_sub_tree_at_index and Dom::split_sub_tree_at_container; the
\* children min_child_index..max_child_index - 1 are split off last to first
RECURSIVE split_sub_tree_at_index(_, _, _, _, _, _),
          split_children(_, _, _, _, _, _, _, _, _)
split_children(root, cur_handle, i, min_child_index, start_offset, end_offset, from_handle, to_handle, child_nodes) ==
    IF i < min_child_index THEN [dom |-> root, nodes |-> child_nodes]
    ELSE LET r == split_sub_tree_at_index(root, child_handle(cur_handle, i),
                        start_offset, end_offset, from_handle, to_handle)
         IN  split_children(r.dom, cur_handle, i - 1, min_child_index,
                            start_offset, end_offset, from_handle, to_handle,
                            r.nodes \o child_nodes)
split_sub_tree_at_index(root, cur_handle, start_offset, end_offset, from_handle, to_handle) ==
    LET node == lookup_node(root, cur_handle)
        depth == depth_of(cur_handle)
        child_count == Len(node.children)
        from_sub == sub_handle_up_to_or_none(from_handle, depth + 1)
        min_child_index ==
            IF is_ancestor_or_self(cur_handle, from_handle) /\ from_sub /= None
            THEN index_in_parent(from_sub) ELSE 0
        to_sub == sub_handle_up_to_or_none(to_handle, depth + 1)
        max_child_index ==
            IF /\ to_handle /= None
               /\ is_ancestor_or_self(cur_handle, to_handle)
               /\ to_sub /= None
            THEN index_in_parent(to_sub) + 1 ELSE child_count
        r == split_children(root, cur_handle, max_child_index - 1,
                            min_child_index, start_offset, end_offset,
                            from_handle, to_handle, <<>>)
        container == lookup_node(r.dom, cur_handle)
        needs_to_remove_container ==
            /\ cur_handle /= RootHandle
            /\ container.children = <<>>
            /\ child_count > 0
    IN  IF is_container_node(node)
        THEN [dom |-> IF needs_to_remove_container
                      THEN remove(r.dom, cur_handle) ELSE r.dom,
              nodes |-> <<[container EXCEPT !.children = r.nodes]>>]
        ELSE IF is_text_node(node)
        THEN split_sub_tree_at_text_node(root, cur_handle, start_offset,
                                         end_offset, from_handle, to_handle)
        ELSE [dom |-> remove(root, cur_handle), nodes |-> <<node>>]

\* Dom::split_sub_tree: the tree left, the tree returned; subtree_children
\* .remove(0) panics when nothing was split off
split_sub_tree(root, from_handle, start_offset, to_handle, end_offset, depth) ==
    LET r == split_sub_tree_at_index(root, sub_handle_up_to(from_handle, depth),
                    start_offset, end_offset, from_handle, to_handle)
    IN  IF r.nodes = <<>>
        THEN [dom |-> r.dom, ret |-> <<>>, panicked |-> TRUE]
        ELSE [dom |-> r.dom, ret |-> new_with_root(r.nodes[1]),
              panicked |-> FALSE]

\* Dom::split_sub_tree_from
split_sub_tree_from(root, from_handle, start_offset, depth) ==
    split_sub_tree(root, from_handle, start_offset, None, usize_MAX, depth)

\* Dom::split_sub_tree_between
split_sub_tree_between(root, from_handle, start_offset, to_handle, end_offset, depth) ==
    split_sub_tree(root, from_handle, start_offset, to_handle, end_offset, depth)

-----------------------------------------------------------------------------
(* The Dom as a state machine: a document of at most MaxNodes nodes below  *)
(* the root, and one action per method called on it.                       *)

Texts == {<<"a", "b">>, <<"H", "L">>}

ContainerKinds == {"Formatting"}

Leaves == {TextNode(t) : t \in Texts} \cup {LineBreak}

\* the nodes (NodesOf) and the sequences of sibling nodes (ForestsOf) that
\* have exactly n nodes
RECURSIVE NodesOf(_), ForestsOf(_)
NodesOf(n) ==
    (IF n = 1 THEN Leaves ELSE {})
    \cup {Container(k, f) : k \in ContainerKinds, f \in ForestsOf(n - 1)}
ForestsOf(n) ==
    IF n = 0 THEN {<<>>}
    ELSE UNION {{<<t>> \o f : t \in NodesOf(k), f \in ForestsOf(n - k)} :
                    k \in 1..n}

\* no container of the tree has two text nodes as consecutive children
NoAdjacentText(root) ==
    \A h \in HandleSet(root) :
        LET node == lookup_node(root, h)
        IN  \A i \in 1..(Len(node.children) - 1) :
                ~(is_text_node(node.children[i])
                  /\ is_text_node(node.children[i + 1]))

\* the documents a Dom starts from: they satisfy the invariants of the Dom
Documents ==
    {d \in {Container("Generic", f) :
                f \in UNION {ForestsOf(n) : n \in 0..MaxNodes}} :
        NoAdjacentText(d)}

HasLineBreak(root) ==
    \E h \in HandleSet(root) : lookup_node(root, h).kind = "LineBreak"

\* DomNode::text_len: a line break counts one code unit
RECURSIVE text_len(_)
text_len(node) ==
    IF is_text_node(node) THEN Len(node.data)
    ELSE IF node.kind = "LineBreak" THEN 1
    ELSE SumSeq([i \in 1..Len(node.children) |-> text_len(node.children[i])])

DomOp(name, args) == [name |-> name, args |-> args, before |-> dom]

ComposerUnchanged ==
    UNCHANGED <<states, cur_state_index, selects, after_edit, expect>>

\* a method is called on a document that satisfies the invariants of the Dom:
\* every such document of at most MaxNodes nodes is an initial state
Callable == ~panicked /\ last_op.name = "new"

InitDom ==
    /\ states = ComposerModelNew.states
    /\ cur_state_index = ComposerModelNew.cur_state_index
    /\ panicked = FALSE
    /\ selects = 0
    /\ after_edit = <<ComposerStateNew>>
    /\ expect = 0
    /\ dom \in Documents
    /\ ret = <<>>
    /\ last_op = [name |-> "new", args |-> <<>>, before |-> dom]

\* the offsets a caller passes for the node at handle h
OffsetsAt(h) == 0..(text_len(lookup_node(dom, h)) + 1)

FindRange ==
    \E start \in OffsetsAt(RootHandle), end \in OffsetsAt(RootHandle) :
        /\ Callable /\ ~HasLineBreak(dom)
        /\ ret' = find_range(dom, start, end)
        /\ last_op' = DomOp("find_range", [start |-> start, end |-> end])
        /\ UNCHANGED <<dom, panicked>>
        /\ ComposerUnchanged

DeleteNodes ==
    \E to_delete \in SUBSET HandleSet(dom) :
        /\ Callable
        /\ dom' = delete_nodes(dom, to_delete).dom
        /\ ret' = delete_nodes(dom, to_delete).deleted
        /\ panicked' = delete_nodes(dom, to_delete).panicked
        /\ last_op' = DomOp("delete_nodes", [to_delete |-> to_delete])
        /\ ComposerUnchanged

RemoveAndKeepChildren ==
    \E node_handle \in HandleSet(dom) \ {RootHandle} :
        /\ Callable
        /\ dom' = remove_and_keep_children(dom, node_handle)
        /\ ret' = <<>>
        /\ last_op' = DomOp("remove_and_keep_children",
                            [node_handle |-> node_handle])
        /\ UNCHANGED panicked
        /\ ComposerUnchanged

SplitDone(r, op) ==
    /\ dom' = r.dom
    /\ ret' = r.ret
    /\ panicked' = r.panicked
    /\ last_op' = op
    /\ ComposerUnchanged

SplitSubTreeFrom ==
    \E from_handle \in HandleSet(dom) \ {RootHandle} :
        \E start_offset \in OffsetsAt(from_handle),
           depth \in 0..Len(from_handle) :
            /\ Callable
            /\ SplitDone(split_sub_tree_from(dom, from_handle, start_offset, depth),
                    DomOp("split_sub_tree_from",
                          [from_handle |-> from_handle,
                           start_offset |-> start_offset, depth |-> depth]))

SplitSubTreeBetween ==
    \E from_handle \in HandleSet(dom) \ {RootHandle},
       to_handle \in HandleSet(dom) \ {RootHandle} :
        \E start_offset \in 0..text_len(lookup_node(dom, from_handle)),
           end_offset \in 1..text_len(lookup_node(dom, to_handle))
                          \cup {usize_MAX} :
            /\ Callable
            /\ ~HandleLess(to_handle, from_handle)
            /\ SplitDone(split_sub_tree_between(dom, from_handle, start_offset,
                                                to_handle, end_offset, 0),
                    DomOp("split_sub_tree_between",
                          [from_handle |-> from_handle,
                           start_offset |-> start_offset,
                           to_handle |-> to_handle,
                           end_offset |-> end_offset, depth |-> 0]))

NextDom ==
    \/ FindRange
    \/ DeleteNodes
    \/ RemoveAndKeepChildren
    \/ SplitSubTreeFrom
    \/ SplitSubTreeBetween

SpecDom == InitDom /\ [][NextDom]_vars

-----------------------------------------------------------------------------
(* merge_text_nodes_around is the method that restores the invariant: it   *)
(* is called on documents that may hold adjacent text nodes.               *)

\* every document of at most MaxNodes nodes, adjacent text nodes included
AnyDocuments ==
    {Container("Generic", f) : f \in UNION {ForestsOf(n) : n \in 0..MaxNodes}}

InitMerge ==
    /\ states = ComposerModelNew.states
    /\ cur_state_index = ComposerModelNew.cur_state_index
    /\ panicked = FALSE
    /\ selects = 0
    /\ after_edit = <<ComposerStateNew>>
    /\ expect = 0
    /\ dom \in AnyDocuments
    /\ ret = <<>>
    /\ last_op = [name |-> "new", args |-> <<>>, before |-> dom]

MergeTextNodesAround ==
    \E handle \in HandleSet(dom) \ {RootHandle} :
        /\ Callable
        /\ dom' = merge_text_nodes_around(dom, handle)
        /\ ret' = <<>>
        /\ last_op' = DomOp("merge_text_nodes_around", [handle |-> handle])
        /\ UNCHANGED panicked
        /\ ComposerUnchanged

NextMerge == MergeTextNodesAround

SpecMerge == InitMerge /\ [][NextMerge]_vars

-----------------------------------------------------------------------------
(* Splitting text that holds characters of two code units: the documents   *)
(* have text nodes longer in code units than in characters.                *)

WideTexts ==
    {<<"H", "L", "H", "L", "a">>, <<"a", "H", "L", "b">>, <<"a", "b">>}

\* a text node, alone, inside a formatting container or after another text
\* node's container
WideDocuments ==
    {Container("Generic", <<TextNode(t)>>) : t \in WideTexts}
    \cup {Container("Generic", <<Container("Formatting", <<TextNode(t)>>)>>) :
            t \in WideTexts}
    \cup {Container("Generic",
                    <<Container("Formatting", <<TextNode(t)>>), TextNode(u)>>) :
            t \in WideTexts, u \in WideTexts}

InitWide ==
    /\ states = ComposerModelNew.states
    /\ cur_state_index = ComposerModelNew.cur_state_index
    /\ panicked = FALSE
    /\ selects = 0
    /\ after_edit = <<ComposerStateNew>>
    /\ expect = 0
    /\ dom \in WideDocuments
    /\ ret = <<>>
    /\ last_op = [name |-> "new", args |-> <<>>, before |-> dom]

NextWide == SplitSubTreeFrom

SpecWide == InitWide /\ [][NextWide]_vars

-----------------------------------------------------------------------------
(* Ranges over documents with a container before two or more leaves: the   *)
(* container can lie wholly before a range that takes in several leaves.   *)

SeveralLeavesDocuments ==
    LET T == TextNode(<<"a", "b">>)
        F(child_nodes) == Container("Formatting", child_nodes)
    IN  {Container("Generic", <<F(<<T>>), T, F(<<T>>)>>),
         Container("Generic", <<F(<<T>>), F(<<T, F(<<T>>)>>)>>),
         Container("Generic", <<T, F(<<T>>), T>>)}

InitSeveralLeaves ==
    /\ states = ComposerModelNew.states
    /\ cur_state_index = ComposerModelNew.cur_state_index
    /\ panicked = FALSE
    /\ selects = 0
    /\ after_edit = <<ComposerStateNew>>
    /\ expect = 0
    /\ dom \in SeveralLeavesDocuments
    /\ ret = <<>>
    /\ last_op = [name |-> "new", args |-> <<>>, before |-> dom]

NextSeveralLeaves == FindRange

SpecSeveralLeaves == InitSeveralLeaves /\ [][NextSeveralLeaves]_vars

-----------------------------------------------------------------------------
(* Dom::replace_multiple_nodes in two steps: replace_in_text_nodes computes *)
(* the actions, then the add actions are applied.  The documents may hold  *)
(* paragraphs and line breaks.                                             *)

\* the tree with every Formatting container turned into a Paragraph
RECURSIVE AsParagraphs(_)
AsParagraphs(node) ==
    IF ~is_container_node(node) THEN node
    ELSE Container(IF node.kind = "Formatting" THEN "Paragraph" ELSE node.kind,
                   [i \in 1..Len(node.children) |->
                        AsParagraphs(node.children[i])])

ReplaceDocuments == Documents \cup {AsParagraphs(d) : d \in Documents}

\* the text replace_multiple_nodes is given
ReplacementTexts == {<<>>, <<"x">>}

InitReplace ==
    /\ states = ComposerModelNew.states
    /\ cur_state_index = ComposerModelNew.cur_state_index
    /\ panicked = FALSE
    /\ selects = 0
    /\ after_edit = <<ComposerStateNew>>
    /\ expect = 0
    /\ dom \in ReplaceDocuments
    /\ ret = <<>>
    /\ last_op = [name |-> "new", args |-> <<>>, before |-> dom]

\* replace_multiple_nodes up to the end of replace_in_text_nodes; the range
\* is the one find_range gives for start <= end
ReplaceInTextNodes ==
    \E start \in 0..text_len(dom), new_text \in ReplacementTexts :
        \E end \in start..text_len(dom) :
            LET locations == find_locations(dom, RootHandle, start, end,
                                            0).locations
                done == replace_in_text_nodes(dom, locations, new_text)
            IN  /\ Callable
                /\ locations /= <<>>
                /\ dom' = done.dom
                /\ ret' = done.action_list
                /\ panicked' = done.panicked
                /\ last_op' = DomOp("replace_in_text_nodes",
                                    [start |-> start, end |-> end,
                                     new_text |-> new_text])
                /\ ComposerUnchanged

\* replace_multiple_nodes from grouped() to the end of the loop over to_add;
\* ret becomes the list to_delete
AddNodes ==
    /\ ~panicked /\ last_op.name = "replace_in_text_nodes"
    /\ dom' = add_nodes(dom, SelectSeq(ret, IsAddAction))
    /\ ret' = [i \in 1..Len(SelectSeq(ret, IsRemoveAction)) |->
                  SelectSeq(ret, IsRemoveAction)[i].handle]
    /\ last_op' = DomOp("add_nodes", [to_add |-> SelectSeq(ret, IsAddAction)])
    /\ UNCHANGED panicked
    /\ ComposerUnchanged

NextReplace == ReplaceInTextNodes \/ AddNodes

SpecReplace == InitReplace /\ [][NextReplace]_vars

-----------------------------------------------------------------------------
(* The handles the nodes store (dom.rs).  Every node of the early Dom has  *)
(* a field handle; the constructors leave it invalid and set_handle,       *)
(* append and replace_child write it.  A tree of this section is a tree of *)
(* the records above with the field handle added to every node.            *)

\* DomHandle::new_invalid
new_invalid == <<usize_MAX>>

\* DomHandle::is_valid
is_valid(h) == \A i \in 1..Len(h) : h[i] /= usize_MAX

\* a node as a caller holds it before it is given to the Dom: TextNode::from
\* and FormattingNode::new leave every handle invalid (stale = new_invalid); a
\* node cloned out of a document carries the handles it had there
RECURSIVE Detached(_, _)
Detached(node, stale) ==
    [kind |-> node.kind, name |-> node.name, data |-> node.data,
     children |-> [i \in 1..Len(node.children) |->
                      Detached(node.children[i], stale)],
     handle |-> stale]

\* DomNode::set_handle (ContainerNode, FormattingNode and TextNode::set_handle)
RECURSIVE set_handle(_, _)
set_handle(node, handle) ==
    [kind |-> node.kind, name |-> node.name, data |-> node.data,
     children |-> [i \in 1..Len(node.children) |->
                      set_handle(node.children[i], child_handle(handle, i - 1))],
     handle |-> handle]

\* ContainerNode::append; the assert on the handle is checked by the caller
ContainerNode_append(node, child) ==
    [node EXCEPT !.children =
        Append(@, set_handle(child, child_handle(node.handle, Len(@))))]

\* replace_child without its second loop: the later children keep the
\* handles they had
RehandleFrom_skipped(node, current_index) == node

\* the later children of replace_child, from current_index on, get their
\* handle set again
RehandleFrom(node, current_index) ==
    [node EXCEPT !.children =
        [i \in 1..Len(@) |->
            IF i - 1 >= current_index
            THEN set_handle(@[i], child_handle(node.handle, i - 1))
            ELSE @[i]]]

\* replace_child that splices at the front: the children before index are
\* dropped with the one at index
replace_child_from_front(node, index, nodes) ==
    RehandleFrom([node EXCEPT !.children = nodes \o Drop(@, index + 1)], 0)

\* ContainerNode::replace_child and FormattingNode::replace_child (the same
\* code); the asserts are checked by the caller
replace_child(node, index, nodes) ==
    LET inserted ==
            [i \in 1..Len(nodes) |->
                set_handle(nodes[i], child_handle(node.handle, index + i - 1))]
        spliced ==
            Take(node.children, index) \o inserted
            \o Drop(node.children, index + 1)
    IN  RehandleFrom([node EXCEPT !.children = spliced], index + Len(nodes))

\* the asserts of replace_child
CanReplaceChild(node, index) ==
    is_valid(node.handle) /\ index < Len(node.children)

\* Dom::new with the handles: ContainerNode::new, set_handle, update_positions
Dom_new(top_level_items) ==
    update_positions(
        [document |->
            set_handle(Detached(ContainerNode(<<>>, top_level_items),
                                new_invalid),
                       RootHandle),
         handles_for_start |-> EmptyMap,
         handles_for_end |-> EmptyMap,
         positions_for_handles |-> EmptyMap],
        RootHandle, 0, FALSE).dom

\* Dom::append with the handles.  The result is [ok, dom].
Dom_append(d, child) ==
    LET handle == child_handle(d.document.handle, Len(children(d)))
        d1 == [d EXCEPT !.document = ContainerNode_append(@, child)]
    IN  IF is_valid(d.document.handle)
        THEN update_positions(d1, handle, 0, FALSE)
        ELSE [ok |-> FALSE, dom |-> d]

\* Dom::replace up to the loop over the next nodes of update_positions.  The
\* result is [ok, dom]; ok is FALSE when an assert or a lookup panics.
ReplaceBeforeShift(d, node_handle, nodes) ==
    LET parent == parent_handle(node_handle)
        parent_node == lookup_node(d.document, parent)
        index == index_in_parent(node_handle)
        d1 == [d EXCEPT !.document =
                 SetNode(@, parent, replace_child(parent_node, index, nodes))]
    IN  IF has_parent(node_handle) /\ ~IsText(parent_node)
           /\ CanReplaceChild(parent_node, index)
        THEN update_positions(d1, parent, 0, FALSE)
        ELSE [ok |-> FALSE, dom |-> d]

\* the end and the diff_size that update_positions(parent, parent_len, true)
\* computes in Dom::replace
ReplaceEnd(d, r, node_handle) ==
    LET parent == parent_handle(node_handle)
    IN  IF has_parent(parent) THEN position_for_handle(r.dom, parent).end
        ELSE NodeLen(r.dom.document)

ReplaceDiff(d, r, node_handle) ==
    LET parent == parent_handle(node_handle)
    IN  NodeLen(lookup_node(r.dom.document, parent))
        - NodeLen(lookup_node(d.document, parent))

\* the subtraction of the loop over the next nodes overflows: the build
\* either traps it (a panic) or wraps around
ReplaceOverflows(d, node_handle, nodes) ==
    LET r == ReplaceBeforeShift(d, node_handle, nodes)
    IN  r.ok /\ ShiftOverflows(r.dom, ReplaceEnd(d, r, node_handle),
                               ReplaceDiff(d, r, node_handle))

\* Dom::replace.  The result is [ok, dom], with the overflow wrapping around.
Dom_replace(d, node_handle, nodes) ==
    LET r == ReplaceBeforeShift(d, node_handle, nodes)
    IN  IF r.ok
        THEN [ok |-> TRUE,
              dom |-> ShiftNextNodes(r.dom, ReplaceEnd(d, r, node_handle),
                                     ReplaceDiff(d, r, node_handle))]
        ELSE r

-----------------------------------------------------------------------------
(* The Dom with stored handles as a state machine: Dom::new, then any      *)
(* sequence of Dom::append and Dom::replace that keeps the document within *)
(* MaxNodes nodes.                                                         *)

\* the nodes and the sequences of sibling nodes of the early Dom that have
\* exactly n nodes
RECURSIVE EarlyNodesOf(_), EarlyForestsOf(_)
EarlyNodesOf(n) ==
    (IF n = 1 THEN {TextNode(t) : t \in Texts} ELSE {})
    \cup {FormattingNode(StrongName, f) : f \in EarlyForestsOf(n - 1)}
EarlyForestsOf(n) ==
    IF n = 0 THEN {<<>>}
    ELSE UNION {{<<t>> \o f : t \in EarlyNodesOf(k), f \in EarlyForestsOf(n - k)} :
                    k \in 1..n}

\* the handles a detached node may carry: invalid, or those of another place
StaleHandles == {new_invalid, <<0>>}

\* the number of nodes below the root
NodeCount(root) == Cardinality(HandleSet(root)) - 1

\* the nodes and the forests by their number of nodes, up to the largest
\* document of the machine
EarlyNodes == [n \in 1..(MaxNodes + 1) |-> EarlyNodesOf(n)]

EarlyForests == [n \in 0..(MaxNodes + 1) |-> EarlyForestsOf(n)]

InitHandles ==
    /\ states = ComposerModelNew.states
    /\ cur_state_index = ComposerModelNew.cur_state_index
    /\ panicked = FALSE
    /\ selects = 0
    /\ after_edit = <<ComposerStateNew>>
    /\ expect = 0
    /\ \E n \in 0..MaxNodes : \E items \in EarlyForests[n] :
            dom = Dom_new(items)
    /\ ret = <<>>
    /\ last_op = [name |-> "new", args |-> <<>>, before |-> dom]

\* the outcome of a call that returned r = [ok, dom]
Returned(r) ==
    /\ panicked' = ~r.ok
    /\ dom' = IF r.ok THEN r.dom ELSE dom
    /\ ret' = <<>>

\* the documents the calls are made on are those of Dom::new and those
\* that Dom::append has extended; one Dom::replace ends a behaviour
Appendable == ~panicked /\ last_op.name \in {"new", "append"}

AppendNode ==
    \E n \in 1..(MaxNodes - NodeCount(dom.document)), stale \in StaleHandles :
        \E child \in EarlyNodes[n] :
            /\ Appendable
            /\ Returned(Dom_append(dom, Detached(child, stale)))
            /\ last_op' = DomOp("append", [child |-> child])
            /\ ComposerUnchanged

\* at most MaxNodes - 1 replacement nodes, which may bring the document to
\* MaxNodes + 1 nodes
ReplaceNode ==
    \E handle \in HandleSet(dom.document) \ {RootHandle} :
        LET kept == NodeCount(dom.document)
                    - NodeCount(lookup_node(dom.document, handle)) - 1
        IN  \E n \in 0..Min(MaxNodes - 1, MaxNodes + 1 - kept) :
                \E nodes \in EarlyForests[n] :
                    LET detached == [i \in 1..Len(nodes) |->
                                        Detached(nodes[i], new_invalid)]
                    IN  /\ Appendable
                        /\ \/ Returned(Dom_replace(dom, handle, detached))
                           \/ /\ ReplaceOverflows(dom, handle, detached)
                              /\ Returned([ok |-> FALSE, dom |-> dom])
                        /\ last_op' = DomOp("replace",
                                            [handle |-> handle, nodes |-> nodes])
                        /\ ComposerUnchanged

NextHandles == AppendNode \/ ReplaceNode

SpecHandles == InitHandles /\ [][NextHandles]_vars

-----------------------------------------------------------------------------
(* Properties of the Dom (checked under SpecDom).                          *)

\* the content of a tree in document order; a line break is one unit
RECURSIVE Content(_), ContentSeq(_)
ContentSeq(nodes) ==
    IF nodes = <<>> THEN <<>>
    ELSE Content(Head(nodes)) \o ContentSeq(Tail(nodes))
Content(node) ==
    IF is_text_node(node) THEN node.data
    ELSE IF node.kind = "LineBreak" THEN <<"BR">>
    ELSE ContentSeq(node.children)

\* the content of the leaves that precede the node at h
RECURSIVE ContentOfLeavesBefore(_, _, _)
ContentOfLeavesBefore(root, hs, h) ==
    IF hs = <<>> THEN <<>>
    ELSE (IF /\ ~is_container_node(lookup_node(root, Head(hs)))
             /\ HandleLess(Head(hs), h)
          THEN Content(lookup_node(root, Head(hs))) ELSE <<>>)
         \o ContentOfLeavesBefore(root, Tail(hs), h)

PositionOf(root, h) ==
    Len(ContentOfLeavesBefore(root, HandlesBelow(root, RootHandle), h))

CalledSplit ==
    last_op.name \in {"split_sub_tree_from", "split_sub_tree_between"}

\* C2: after remove_and_keep_children or split_sub_tree on a tree without
\* adjacent text siblings, no container of the remaining tree has two text
\* nodes as consecutive children.
C2_NoAdjacentTextAfterCall ==
    ( /\ last_op.name = "remove_and_keep_children" \/ CalledSplit
      /\ ~panicked
      /\ NoAdjacentText(last_op.before) ) => NoAdjacentText(dom)

\* the leaf locations a range carries
LeafLocations(range) ==
    CASE range.kind = "NoNode" -> <<>>
      [] range.kind = "SameNode" -> <<range>>
      [] range.kind = "MultipleNodes" -> SelectSeq(range.locations, IsLeafLocation)

\* the slices [start_offset, end_offset) of the located leaves, concatenated
RECURSIVE ConcatSlices(_, _)
ConcatSlices(root, ls) ==
    IF ls = <<>> THEN <<>>
    ELSE SubSeq(lookup_node(root, Head(ls).node_handle).data,
                Head(ls).start_offset + 1, Head(ls).end_offset)
         \o ConcatSlices(root, Tail(ls))

FoundRange(start, end) ==
    /\ last_op.name = "find_range"
    /\ last_op.args.start = start
    /\ last_op.args.end = end

\* C6: for 0 <= start <= end <= length the leaf locations of
\* find_range(start, end) are in document order and their slices, put
\* together, are the flattened text sliced by [start, end).
C6_RangeRoundTrip ==
    \A start \in 0..text_len(dom), end \in 0..text_len(dom) :
        (FoundRange(start, end) /\ start <= end) =>
            LET ls == LeafLocations(ret)
            IN  /\ \A i \in 1..(Len(ls) - 1) :
                       HandleLess(ls[i].node_handle, ls[i + 1].node_handle)
                /\ ConcatSlices(dom, ls) = SubSeq(Flatten(dom), start + 1, end)

\* a range that starts inside one leaf and ends inside a later one was resolved
C6_Witness ==
    /\ last_op.name = "find_range"
    /\ last_op.args.start < last_op.args.end
    /\ last_op.args.end <= text_len(dom)
    /\ ret.kind = "MultipleNodes"
    /\ Len(LeafLocations(ret)) >= 2
    /\ LeafLocations(ret)[1].start_offset > 0
    /\ Last(LeafLocations(ret)).end_offset < Last(LeafLocations(ret)).length

\* C7: delete_nodes, for any set of handles of the tree, the root handle
\* included, leaves the root in place and does not return the root handle.
C7_RootNeverDeleted ==
    last_op.name = "delete_nodes" =>
        /\ ~panicked
        /\ dom.kind = "Generic"
        /\ last_op.before.kind = "Generic"
        /\ ~InSeq(RootHandle, ret)
        /\ \A i \in 1..Len(ret) : ret[i] \in HandleSet(last_op.before)

\* the root handle and the handles of all children of the root were deleted
C7_Witness ==
    /\ last_op.name = "delete_nodes"
    /\ RootHandle \in last_op.args.to_delete
    /\ last_op.before.children /= <<>>
    /\ \A i \in 1..Len(last_op.before.children) : <<i - 1>> \in last_op.args.to_delete
    /\ dom.children = <<>>
    /\ ~panicked

\* the handles of R and the parents, the root excepted, all of whose
\* children are in R
WithEmptiedParents(root, R) ==
    R \cup {a \in HandleSet(root) \ {RootHandle} :
              LET node == lookup_node(root, a)
              IN  /\ is_container_node(node)
                  /\ node.children /= <<>>
                  /\ \A i \in 1..Len(node.children) :
                         child_handle(a, i - 1) \in R}

\* the handles delete_nodes is to remove: those given, the root excepted,
\* and every ancestor left with no children, repeatedly up the tree
RECURSIVE ToBeRemoved(_, _)
ToBeRemoved(root, R) ==
    IF WithEmptiedParents(root, R) = R THEN R
    ELSE ToBeRemoved(root, WithEmptiedParents(root, R))

\* the tree without the nodes whose handle, in the tree as given, is in R
RECURSIVE Without(_, _, _)
Without(node, h, R) ==
    IF ~is_container_node(node) THEN node
    ELSE [node EXCEPT !.children =
            LET kept == SelectSeq([i \in 1..Len(node.children) |-> i - 1],
                                  LAMBDA i : child_handle(h, i) \notin R)
            IN  [k \in 1..Len(kept) |->
                    Without(node.children[kept[k] + 1],
                            child_handle(h, kept[k]), R)]]

\* C25: delete_nodes, given distinct handles of the tree, removes the nodes
\* the handles designated when the call started and every ancestor other
\* than the root that is left with no children, repeatedly up the tree, and
\* nothing else; the returned list holds the handle of each node removed,
\* the pruned ancestors included, once.
C25_DeletesDesignatedAndEmptied ==
    last_op.name = "delete_nodes" =>
        LET removed == ToBeRemoved(last_op.before,
                                   last_op.args.to_delete \ {RootHandle})
        IN  /\ ~panicked
            /\ dom = Without(last_op.before, RootHandle, removed)
            /\ {ret[i] : i \in 1..Len(ret)} = removed
            /\ Len(ret) = Cardinality(removed)

\* two nodes were given, one of them the only child of a container, which is
\* removed with it although it was not given
C25_Witness ==
    /\ last_op.name = "delete_nodes"
    /\ ~panicked
    /\ Cardinality(last_op.args.to_delete) = 2
    /\ RootHandle \notin last_op.args.to_delete
    /\ Len(ret) = 3
    /\ \E i \in 1..Len(ret) :
          /\ ret[i] \notin last_op.args.to_delete
          /\ child_handle(ret[i], 0) \in last_op.args.to_delete

\* the proper ancestors of h, the root first
Ancestors(h) == [k \in 1..Len(h) |-> SubSeq(h, 1, k - 1)]

\* the handle reached by descending k times into the first child
FirstChildPath(k) == [i \in 1..k |-> 0]

\* some node below the ancestor a precedes the node at h
HasNodeBefore(a, h) == \E i \in (Len(a) + 1)..Len(h) : h[i] > 0

\* the containers of a tree, the root excepted, that have no children
EmptyContainers(root) ==
    {h \in HandleSet(root) \ {RootHandle} :
        /\ is_container_node(lookup_node(root, h))
        /\ lookup_node(root, h).children = <<>>}

\* split_sub_tree_from was called with depth 0 on a text leaf whose
\* characters are one code unit long, with an offset within the leaf
SplitAtTextLeaf ==
    /\ last_op.name = "split_sub_tree_from"
    /\ last_op.args.depth = 0
    /\ is_text_node(lookup_node(last_op.before, last_op.args.from_handle))
    /\ LET data == lookup_node(last_op.before, last_op.args.from_handle).data
       IN  /\ chars_count(data) = Len(data)
           /\ last_op.args.start_offset <= Len(data)

\* the absolute position of the split point
SplitPoint ==
    PositionOf(last_op.before, last_op.args.from_handle)
        + last_op.args.start_offset

SplitPartitionsContent ==
    /\ ~panicked
    /\ Content(dom) = Take(Content(last_op.before), SplitPoint)
    /\ Content(ret) = Drop(Content(last_op.before), SplitPoint)

\* the returned tree has the ancestors of the split point as a chain of
\* first children
ReturnedKeepsChain ==
    \A k \in 1..Len(last_op.args.from_handle) :
        /\ FirstChildPath(k - 1) \in HandleSet(ret)
        /\ is_container_node(lookup_node(ret, FirstChildPath(k - 1)))
        /\ lookup_node(ret, FirstChildPath(k - 1)).kind
               = lookup_node(last_op.before,
                             Ancestors(last_op.args.from_handle)[k]).kind

\* the remaining tree has the ancestor a of the split point where it was
RemainingKeeps(a) ==
    /\ a \in HandleSet(dom)
    /\ is_container_node(lookup_node(dom, a))
    /\ lookup_node(dom, a).kind = lookup_node(last_op.before, a).kind

\* C8 (as stated): split_sub_tree_from at a text leaf with depth 0 leaves the
\* content before the split point, returns the content from the split point
\* on, and both trees keep every ancestor container of the split point.
C8_SplitKeepsBothChains ==
    SplitAtTextLeaf =>
        /\ SplitPartitionsContent
        /\ ReturnedKeepsChain
        /\ \A k \in 1..Len(last_op.args.from_handle) :
               RemainingKeeps(Ancestors(last_op.args.from_handle)[k])

\* C8 (amended): split_sub_tree_from at a text leaf with depth 0 leaves the
\* content before the split point and returns the content from the split
\* point on; the returned tree keeps every ancestor container of the split
\* point; the remaining tree keeps the root and every ancestor that has a
\* node before the split point or, when the offset is not 0, the split leaf
\* itself; an ancestor the split leaves without children is removed, so the
\* remaining tree has no more empty containers than the original.
C8_SplitPartitionsTree ==
    SplitAtTextLeaf =>
        /\ SplitPartitionsContent
        /\ ReturnedKeepsChain
        /\ RemainingKeeps(RootHandle)
        /\ \A k \in 1..Len(last_op.args.from_handle) :
               LET a == Ancestors(last_op.args.from_handle)[k]
               IN  (\/ last_op.args.start_offset > 0
                    \/ HasNodeBefore(a, last_op.args.from_handle))
                       => RemainingKeeps(a)
        /\ Cardinality(EmptyContainers(dom))
               = Cardinality(EmptyContainers(last_op.before))

\* a nested text leaf was split in the middle, content staying on both sides
C8_Witness ==
    /\ SplitAtTextLeaf
    /\ ~panicked
    /\ Len(last_op.args.from_handle) >= 2
    /\ last_op.args.start_offset = 1
    /\ Content(dom) /= <<>>
    /\ Len(Content(ret)) >= 2

\* the first child of a container was split at offset 0 and the container,
\* left without children, is not in the remaining tree
C8_EmptiedAncestorRemoved ==
    /\ SplitAtTextLeaf
    /\ ~panicked
    /\ last_op.args.start_offset = 0
    /\ last_op.args.from_handle = <<0, 0>>
    /\ dom.children = <<>>
    /\ Content(ret) /= <<>>

\* the absolute position of the second point
SplitEndPoint ==
    PositionOf(last_op.before, last_op.args.to_handle)
        + last_op.args.end_offset

\* split_sub_tree_between was called with depth 0 between two text leaves
\* whose characters are one code unit long, the first point not after the
\* second
SplitBetweenTextLeaves ==
    /\ last_op.name = "split_sub_tree_between"
    /\ last_op.args.depth = 0
    /\ is_text_node(lookup_node(last_op.before, last_op.args.from_handle))
    /\ is_text_node(lookup_node(last_op.before, last_op.args.to_handle))
    /\ LET from == lookup_node(last_op.before, last_op.args.from_handle).data
           to == lookup_node(last_op.before, last_op.args.to_handle).data
       IN  /\ chars_count(from) = Len(from)
           /\ chars_count(to) = Len(to)
           /\ last_op.args.start_offset <= Len(from)
           /\ last_op.args.end_offset <= Len(to)
    /\ SplitPoint <= SplitEndPoint

\* C21: split_sub_tree_between(from_handle, start_offset, to_handle,
\* end_offset, 0) returns the content from the first point up to the second
\* and leaves the content before the first point followed by the content
\* after the second, also when both handles are the same text node.
C21_SplitBetweenExtractsRange ==
    SplitBetweenTextLeaves =>
        /\ ~panicked
        /\ Content(ret)
               = SubSeq(Content(last_op.before), SplitPoint + 1, SplitEndPoint)
        /\ Content(dom)
               = Take(Content(last_op.before), SplitPoint)
                 \o Drop(Content(last_op.before), SplitEndPoint)

\* C22: split_sub_tree with a start_offset k, 1 <= k < length in code units
\* of the text node at from_handle, keeps the first k code units in that
\* node and returns the rest of the node first in the returned tree, also
\* when the node has fewer characters than k.
C22_SplitCountsCodeUnits ==
    ( /\ last_op.name = "split_sub_tree_from"
      /\ is_text_node(lookup_node(last_op.before, last_op.args.from_handle))
      /\ last_op.args.start_offset >= 1
      /\ last_op.args.start_offset
            < Len(lookup_node(last_op.before, last_op.args.from_handle).data) ) =>
        LET data == lookup_node(last_op.before, last_op.args.from_handle).data
            k == last_op.args.start_offset
        IN  /\ ~panicked
            /\ last_op.args.from_handle \in HandleSet(dom)
            /\ lookup_node(dom, last_op.args.from_handle) = TextNode(Take(data, k))
            /\ Take(Content(ret), Len(data) - k) = Drop(data, k)

\* the handles of the text leaves of a tree
TextLeaves(root) == {h \in HandleSet(root) : is_text_node(lookup_node(root, h))}

\* position p is where the text leaf at h1 ends and the text leaf at h2 begins
IsLeafBoundary(root, p, h1, h2) ==
    /\ h1 \in TextLeaves(root) /\ h2 \in TextLeaves(root)
    /\ HandleLess(h1, h2)
    /\ PositionOf(root, h1) + Len(lookup_node(root, h1).data) = p
    /\ PositionOf(root, h2) = p
    /\ lookup_node(root, h1).data /= <<>>
    /\ lookup_node(root, h2).data /= <<>>

\* the text leaves below the node at handle c
TextLeavesUnder(root, c) == {h \in TextLeaves(root) : is_ancestor_of(c, h)}

\* the first of them in document order, for a node that has one
FirstTextLeafUnder(root, c) ==
    CHOOSE h \in TextLeavesUnder(root, c) :
        \A g \in TextLeavesUnder(root, c) \ {h} : HandleLess(h, g)

\* the last call was split_sub_tree_from with the handle of a container that
\* has a text leaf below it, and an offset inside that leaf
SplitFromContainer ==
    /\ last_op.name = "split_sub_tree_from"
    /\ is_container_node(lookup_node(last_op.before, last_op.args.from_handle))
    /\ TextLeavesUnder(last_op.before, last_op.args.from_handle) /= {}
    /\ last_op.args.start_offset \in
          1..Len(lookup_node(last_op.before,
                     FirstTextLeafUnder(last_op.before,
                                        last_op.args.from_handle)).data)

\* C29: split_sub_tree_from with the handle of a container C gives the same
\* remaining tree and the same returned tree as the call with the handle of
\* the first text leaf under C, the same offset and the same depth.
C29_PartialHandleIsFirstLeaf ==
    SplitFromContainer =>
        LET leaf == FirstTextLeafUnder(last_op.before, last_op.args.from_handle)
            r == split_sub_tree_from(last_op.before, leaf,
                                     last_op.args.start_offset,
                                     last_op.args.depth)
        IN  /\ panicked = r.panicked
            /\ dom = r.dom
            /\ ret = r.ret

\* the last call was find_range(start, end) with start <= end
FoundForward ==
    last_op.name = "find_range" /\ last_op.args.start <= last_op.args.end

\* the text leaf that comes first in document order, in a tree that has one
FirstTextLeaf(root) ==
    CHOOSE h \in TextLeaves(root) :
        \A g \in TextLeaves(root) \ {h} : HandleLess(h, g)

\* the range has one leaf location: the leaf at h with the offsets (a, b)
IsTheOnlyLeaf(range, h, a, b) ==
    /\ Len(LeafLocations(range)) = 1
    /\ LeafLocations(range)[1].node_handle = h
    /\ LeafLocations(range)[1].start_offset = a
    /\ LeafLocations(range)[1].end_offset = b

\* C28: find_range(p, p) resolves to exactly one text leaf: for p > 0 on the
\* boundary between two leaves, the preceding leaf with both offsets equal
\* to its length; for p = 0, the first leaf with offsets (0, 0).  A range
\* [p, q) with p < q records no location for a leaf that ends at p.
C28_CursorBindsToPrecedingLeaf ==
    FoundForward =>
        LET p == last_op.args.start
            q == last_op.args.end
        IN  /\ \A h1 \in TextLeaves(dom), h2 \in TextLeaves(dom) :
                   (p = q /\ p > 0 /\ IsLeafBoundary(dom, p, h1, h2)) =>
                       IsTheOnlyLeaf(ret, h1, Len(lookup_node(dom, h1).data),
                                     Len(lookup_node(dom, h1).data))
            /\ (p = 0 /\ q = 0 /\ TextLeaves(dom) /= {}) =>
                   IsTheOnlyLeaf(ret, FirstTextLeaf(dom), 0, 0)
            /\ \A h \in TextLeaves(dom) :
                   (p < q /\ PositionOf(dom, h) + Len(lookup_node(dom, h).data) = p) =>
                       \A i \in 1..Len(LeafLocations(ret)) :
                           LeafLocations(ret)[i].node_handle /= h

\* a cursor on the boundary of two text leaves has been resolved
C28_Witness ==
    /\ FoundForward
    /\ last_op.args.start = last_op.args.end
    /\ \E h1 \in TextLeaves(dom), h2 \in TextLeaves(dom) :
           /\ IsLeafBoundary(dom, last_op.args.start, h1, h2)
           /\ IsTheOnlyLeaf(ret, h1, Len(lookup_node(dom, h1).data),
                            Len(lookup_node(dom, h1).data))

\* C12: find_range(p, p) with p the boundary between two consecutive leaves
\* resolves to offset 0 of the leaf that begins at p and records no location
\* for the leaf that ends at p.
C12_CursorBindsToFollowingLeaf ==
    \A h1 \in TextLeaves(dom), h2 \in TextLeaves(dom) :
        ( /\ last_op.name = "find_range"
          /\ last_op.args.start = last_op.args.end
          /\ IsLeafBoundary(dom, last_op.args.start, h1, h2) ) =>
            /\ LeafLocations(ret) /= <<>>
            /\ \A i \in 1..Len(LeafLocations(ret)) :
                   /\ LeafLocations(ret)[i].node_handle = h2
                   /\ LeafLocations(ret)[i].start_offset = 0
                   /\ LeafLocations(ret)[i].end_offset = 0

\* the locations the walk of the last find_range call recorded, as the
\* caller gets them (turned round when the call had end < start)
Walked ==
    LET lo == Min(last_op.args.start, last_op.args.end)
        hi == Max(last_op.args.start, last_op.args.end)
        locations == find_pos_in(dom, RootHandle, lo, hi)
    IN  IF last_op.args.end < last_op.args.start
        THEN [i \in 1..Len(locations) |-> reversed(locations[i])]
        ELSE locations

WalkedLeaves == SelectSeq(Walked, IsLeafLocation)

IsSameNodeOf(range, location) ==
    /\ range.kind = "SameNode"
    /\ range.node_handle = location.node_handle
    /\ range.start_offset = location.start_offset
    /\ range.end_offset = location.end_offset

C13_NothingRecorded ==
    /\ last_op.name = "find_range"
    /\ dom.children /= <<>>
    /\ Walked = <<>>
    /\ ret.kind = "NoNode"

\* the handles of the locations of a range, in the order of the range
LocationHandles(range) ==
    [i \in 1..Len(range.locations) |-> range.locations[i].node_handle]

\* g comes before h when the walk records a container after its children
IsRecordedBefore(g, h) ==
    \/ is_ancestor_of(h, g)
    \/ HandleLess(g, h) /\ ~is_ancestor_of(g, h)

\* C23 (as stated): the locations of a MultipleNodes range are sorted by the
\* lexicographic order of their handle paths, the location of a container
\* before the locations of its descendants.
C23_LocationsInPathOrder ==
    (last_op.name = "find_range" /\ ret.kind = "MultipleNodes") =>
        LET hs == LocationHandles(ret)
        IN  \A i, j \in 1..Len(hs) : i < j => HandleLess(hs[i], hs[j])

\* C23 (amended): the locations of a MultipleNodes range are in the order
\* of the walk: the leaves in document order, and the location of a
\* container after the locations of all its descendants and before those of
\* every node that follows it.
C23_LocationsInWalkOrder ==
    (last_op.name = "find_range" /\ ret.kind = "MultipleNodes") =>
        LET hs == LocationHandles(ret)
        IN  \A i, j \in 1..Len(hs) : i < j => IsRecordedBefore(hs[i], hs[j])

\* a MultipleNodes range of a forward selection holds the location of a
\* container and, before it, the location of a leaf inside it
C23_Witness ==
    /\ last_op.name = "find_range"
    /\ last_op.args.start < last_op.args.end
    /\ ret.kind = "MultipleNodes"
    /\ \E i, j \in 1..Len(ret.locations) :
          /\ i < j
          /\ ret.locations[i].is_leaf
          /\ ~ret.locations[j].is_leaf
          /\ is_ancestor_of(ret.locations[j].node_handle,
                            ret.locations[i].node_handle)

\* the handles the walk of find_range recorded a location for
WalkedHandles == {Walked[i].node_handle : i \in 1..Len(Walked)}

WalkedLeafHandles == {WalkedLeaves[i].node_handle : i \in 1..Len(WalkedLeaves)}

\* C24: in the locations find_range records, a container other than the
\* root has a location exactly when a leaf below it has one, and the root
\* has none.
C24_ContainerIffLeafIncluded ==
    last_op.name = "find_range" =>
        /\ RootHandle \notin WalkedHandles
        /\ \A h \in HandleSet(dom) \ {RootHandle} :
               is_container_node(lookup_node(dom, h)) =>
                   (h \in WalkedHandles
                      <=> \E leaf \in WalkedLeafHandles : is_ancestor_of(h, leaf))

\* C30: every location of a range that find_range(start, end) returns for
\* start <= end within the document has 0 <= start_offset <= end_offset <= length, and its
\* position is the total length of the leaves before the node.
C30_LocationsWithinTheirNodes ==
    (FoundForward /\ last_op.args.end <= text_len(dom)) =>
        /\ ret.kind = "SameNode" =>
               /\ 0 <= ret.start_offset
               /\ ret.start_offset <= ret.end_offset
               /\ ret.end_offset <= text_len(lookup_node(dom, ret.node_handle))
        /\ ret.kind = "MultipleNodes" =>
               \A i \in 1..Len(ret.locations) :
                   LET loc == ret.locations[i]
                   IN  /\ 0 <= loc.start_offset
                       /\ loc.start_offset <= loc.end_offset
                       /\ loc.end_offset <= loc.length
                       /\ loc.position = PositionOf(dom, loc.node_handle)

-----------------------------------------------------------------------------
(* Properties of merge_text_nodes_around (checked under SpecMerge).        *)

\* the children of parent at 0-based indices index and index + 1 are both
\* text nodes
IsTextPair(parent, index) ==
    /\ index >= 0
    /\ index + 2 <= Len(parent.children)
    /\ is_text_node(parent.children[index + 1])
    /\ is_text_node(parent.children[index + 2])

\* C14: after merge_text_nodes_around(handle) a second call with the same
\* handle changes nothing, and in the parent neither the pair before the
\* index of the handle nor the pair at it is a pair of text nodes.
C14_MergeIsIdempotent ==
    last_op.name = "merge_text_nodes_around" =>
        LET handle == last_op.args.handle
            parent == lookup_node(dom, parent_handle(handle))
        IN  /\ merge_text_nodes_around(dom, handle) = dom
            /\ ~IsTextPair(parent, index_in_parent(handle) - 1)
            /\ ~IsTextPair(parent, index_in_parent(handle))

-----------------------------------------------------------------------------
(* Properties of the stored handles (checked under SpecHandles).           *)

\* every node of the tree stores its path as its handle, so that looking up
\* the stored handle of a node gives the node
StoredHandlesMatch(root) ==
    \A h \in HandleSet(root) :
        LET node == lookup_node(root, h)
        IN  /\ node.handle = h
            /\ lookup_node(root, node.handle) = node
            /\ \A i \in 1..Len(node.children) :
                    node.children[i].handle = child_handle(h, i - 1)

\* C15: after Dom::new and after every Dom::append and Dom::replace that
\* returns, the handle stored in every node is the path of the node from the
\* root: the i-th child of the node with handle h stores h ++ [i].
C15_StoredHandleIsPath ==
    ~panicked => StoredHandlesMatch(dom.document)

\* Dom::replace has put two or more nodes in the place of one that had a
\* later sibling with children of its own
C15_Witness ==
    /\ last_op.name = "replace"
    /\ ~panicked
    /\ Len(last_op.args.nodes) >= 2
    /\ LET handle == last_op.args.handle
           parent == lookup_node(dom.document, parent_handle(handle))
           later == index_in_parent(handle) + Len(last_op.args.nodes) + 1
       IN  /\ later <= Len(parent.children)
           /\ parent.children[later].children /= <<>>

\* g is h or below h
IsAtOrBelow(g, h) == Len(g) >= Len(h) /\ SubSeq(g, 1, Len(h)) = h

\* g is a later sibling of h or below one
IsLaterSiblingOrBelow(g, h) ==
    /\ Len(g) >= Len(h)
    /\ SubSeq(g, 1, Len(h) - 1) = parent_handle(h)
    /\ g[Len(h)] > index_in_parent(h)

\* the fields of the node itself, without its children
OwnContent(node) ==
    [kind |-> node.kind, name |-> node.name, data |-> node.data,
     handle |-> node.handle]

\* the handles of the document before Dom::replace(h, nodes) that the claim
\* is about
StableHandles(root, h) ==
    {g \in HandleSet(root) :
        ~IsAtOrBelow(g, h) /\ ~IsLaterSiblingOrBelow(g, h)}

-----------------------------------------------------------------------------
(* Properties of replace_multiple_nodes (checked under SpecReplace).        *)

\* C26: in replace_multiple_nodes, once the add actions of
\* replace_in_text_nodes have all been applied, every handle marked for
\* deletion still designates the node it designated when the actions were
\* computed.
C26_AddsKeepDeleteHandles ==
    last_op.name = "add_nodes" =>
        \A i \in 1..Len(ret) :
            /\ ret[i] \in HandleSet(dom)
            /\ lookup_node(dom, ret[i]) = lookup_node(last_op.before, ret[i])

\* a node has been added and a node is marked for deletion
C26_Witness ==
    /\ last_op.name = "add_nodes"
    /\ last_op.args.to_add /= <<>>
    /\ ret /= <<>>
    /\ dom /= last_op.before

-----------------------------------------------------------------------------
(* Properties of the position cache (checked under SpecHandles).           *)

\* the offset at which the node at handle h starts: the length of all the
\* text before it in document order
RECURSIVE TrueStart(_, _)
TrueStart(root, h) ==
    IF ~has_parent(h) THEN 0
    ELSE LET siblings == lookup_node(root, parent_handle(h)).children
         IN  TrueStart(root, parent_handle(h))
             + SumSeq([i \in 1..index_in_parent(h) |-> NodeLen(siblings[i])])

TruePosition(root, h) ==
    NodePosition(TrueStart(root, h),
                 TrueStart(root, h) + NodeLen(lookup_node(root, h)))

\* C27: after Dom::replace has returned, the cached (start, end) of every
\* non-root node equals its true absolute offsets in the new tree.
C27_PositionsExactAfterReplace ==
    (last_op.name = "replace" /\ ~panicked) =>
        \A h \in HandleSet(dom.document) \ {RootHandle} :
            /\ HasPosition(dom, h)
            /\ position_for_handle(dom, h) = TruePosition(dom.document, h)

====
